---- MODULE Spec2Model ----
(***************************************************************************)
(* Model of the snow-utils command-line tools.                             *)
(*                                                                         *)
(* Part 1: the external-volume `create` workflow of                        *)
(*   iceberg-external-volume/scripts/extvolume.py                          *)
(* (bucket -> IAM policy -> IAM role -> external volume -> describe ->     *)
(* trust update -> verify, with rollback_aws_resources on failure), and    *)
(* the backoff waiter wait_with_backoff that the workflow polls with.      *)
(*                                                                         *)
(* The cloud account (S3, IAM, STS) and the Snowflake account are the      *)
(* external state; every call to them may succeed or fail.                 *)
(***************************************************************************)
EXTENDS Integers, Sequences, FiniteSets, TLC

VARIABLES
    \* ---- command-line options of `create`
    force,            \* --force
    skip_verify,      \* --skip-verify
    \* ---- the cloud account
    s3_bucket,        \* "absent" | "present" | "foreign" (exists, owned by someone else)
    iam_policy,       \* "absent" | "present" | "denied"
    iam_role,         \* "absent" | "present" | "denied"
    role_trust,       \* the role's AssumeRolePolicyDocument, NoTrust when there is no role
    role_attached,    \* the policy is attached to the role
    \* ---- the Snowflake account
    sf_volume,        \* NoVolume or [arn, external_id] of the external volume
    \* ---- locals of `create`
    pc,               \* position in `create`
    created_bucket,
    created_policy,
    created_role,
    sf_props,         \* result of describe_external_volume, NoProps before step 5
    err,              \* the exception in flight: NoErr or [step, cause, kind]
    raised,           \* the exception that left `create`: NoErr or [step, cause, kind]
    status,           \* "running" | "success" | "failed"
    \* ---- observation
    calls,            \* the external calls issued so far, in order: [api, ok]
    pre,              \* the cloud account as it was before the run
    made,             \* resources whose create call succeeded in this run
    role_wait,        \* what the IAM-role wait returned: NoRet or [result, checks, sleeps]
    trust_wait,       \* what the trust-policy wait returned
    verify_result,    \* what step 7 saw: "none" | "skipped" | "success" | "failure" | "unknown"
    rb_log,           \* the rollback failures echoed so far, in order
    \* ---- the backoff waiter called on its own
    w_args,           \* [check_fn, max_attempts, initial_delay, max_delay, backoff_factor]
    w_ret,            \* NoRet or [result, checks, sleeps]
    \* ---- the reconcile operations called on their own
    acct,             \* the Snowflake and cloud objects the operations manage
    acct_before,      \* acct as it was when the last operation was called
    op,               \* the last operation: NoOp or [name, impl, args, ok, ret, stmts]
    again,            \* the call before it, when it was the same call: [is, ok, ret]
    \* ---- the commands as run from the shell
    c_args,           \* the command line and the environment it runs in
    c_pc,             \* where the command is: "off", "start", ..., "done" | "failed"
    c_out,            \* what it has printed, in order: lines and JSON documents
    c_ext,            \* the processes and requests it has started, in order
    c_token,          \* the token_secret create_or_rotate_pat returned, "" before
    c_env_file,       \* the .env file: [exists, password]
    c_exit,           \* the code check_setup.py gave to sys.exit, -1 before
    \* ---- the library functions called on their own
    m_call,           \* the masking call [fn, value, mask_type, data, mask_sensitive]
                      \* and, once done, what it returned: ret or ret_data
    p_log,            \* the calls of the preset fetchers: [preset, http, ok]
    p_cache           \* whether lru_cache holds a result, per decorated fetcher

create_vars == <<force, skip_verify, s3_bucket, iam_policy, iam_role, role_trust,
                 role_attached, sf_volume, pc, created_bucket, created_policy,
                 created_role, sf_props, err, raised, status, calls, pre, made,
                 role_wait, trust_wait, verify_result, rb_log>>
wait_vars == <<w_args, w_ret>>
rec_vars == <<acct, acct_before, op, again>>
cmd_vars == <<c_args, c_pc, c_out, c_ext, c_token, c_env_file, c_exit>>
lib_vars == <<m_call, p_log, p_cache>>
other_vars == <<rec_vars, cmd_vars, lib_vars>>
vars == <<create_vars, wait_vars, other_vars>>

----------------------------------------------------------------------------
\* Bounds of the model

\* largest max_attempts the waiter is called with on its own
MaxAttempts == 4
\* largest initial_delay / max_delay / backoff_factor drawn for the waiter
MaxDelay == 4

Min(a, b) == IF a <= b THEN a ELSE b

----------------------------------------------------------------------------
\* Backoff waiter (extvolume.py, wait_with_backoff)

\* check_fn is the sequence of answers the polled function gives, one per
\* invocation.  The loop body of `for attempt in range(1, max_attempts + 1)`.
RECURSIVE wait_loop(_, _, _, _, _, _, _)
wait_loop(check_fn, attempt, delay, max_attempts, max_delay, backoff_factor, acc) ==
    IF attempt > max_attempts
    THEN [result |-> FALSE, checks |-> acc.checks, sleeps |-> acc.sleeps]
    ELSE IF check_fn[attempt]
    THEN [result |-> TRUE, checks |-> acc.checks + 1, sleeps |-> acc.sleeps]
    ELSE IF attempt < max_attempts
    THEN wait_loop(check_fn, attempt + 1, Min(delay * backoff_factor, max_delay),
                   max_attempts, max_delay, backoff_factor,
                   [checks |-> acc.checks + 1, sleeps |-> Append(acc.sleeps, delay)])
    ELSE wait_loop(check_fn, attempt + 1, delay,
                   max_attempts, max_delay, backoff_factor,
                   [checks |-> acc.checks + 1, sleeps |-> acc.sleeps])

\* variant: the loop runs over range(1, max_attempts)
wait_with_backoff_short(check_fn, max_attempts, initial_delay, max_delay, backoff_factor) ==
    wait_loop(check_fn, 1, initial_delay, max_attempts - 1, max_delay, backoff_factor,
              [checks |-> 0, sleeps |-> <<>>])

wait_with_backoff(check_fn, max_attempts, initial_delay, max_delay, backoff_factor) ==
    wait_loop(check_fn, 1, initial_delay, max_attempts, max_delay, backoff_factor,
              [checks |-> 0, sleeps |-> <<>>])

\* max_attempts the two callers of wait_with_backoff pass
RoleWaitAttempts == 6
TrustWaitAttempts == 6

\* The answers of a polled condition that becomes true at invocation `at`
\* (never, when at > n)
VisibleFrom(at, n) == [i \in 1..n |-> i >= at]

----------------------------------------------------------------------------
\* Values

NoTrust == [principal |-> "none", external_id |-> "none"]
NoVolume == [arn |-> "none", external_id |-> "none"]
NoProps == [iam_user_arn |-> "none", external_id |-> "none"]
NoErr == [step |-> "none", cause |-> "none", kind |-> "none"]
NoRet == [result |-> FALSE, checks |-> 0 - 1, sleeps |-> <<>>]

\* config.external_id of this run, and the external ID of a volume or role
\* left by an earlier run
ConfigExternalId == "ext_cfg"
OldExternalId == "ext_old"
\* the IAM user ARNs Snowflake may assign to an external volume
SnowflakeArns == {"arn_sf_a", "arn_sf_b"}

\* variant: the initial trust document without the external-ID condition
get_initial_trust_policy_open(account_id, external_id) ==
    [principal |-> account_id, external_id |-> "none"]

get_initial_trust_policy(account_id, external_id) ==
    [principal |-> account_id, external_id |-> external_id]

get_snowflake_trust_policy(snowflake_user_arn, external_id) ==
    [principal |-> snowflake_user_arn, external_id |-> external_id]


Call(api, ok) == [api |-> api, ok |-> ok]

\* variant: a failure of step 4 is swallowed and the workflow goes on
Raise_swallowed(step, cause, kind) ==
    /\ err' = [step |-> step, cause |-> cause, kind |-> kind]
    /\ pc' = IF step = "step4" THEN "step5" ELSE "rollback_role"

\* an exception leaves a step: the except clauses of `create` run rollback
Raise(step, cause, kind) ==
    /\ err' = [step |-> step, cause |-> cause, kind |-> kind]
    /\ pc' = "rollback_role"

----------------------------------------------------------------------------
\* `create`: clients and account id (before the try block)

InitClients ==
    /\ pc = "init"
    /\ \E ok \in BOOLEAN :
         /\ calls' = Append(calls, Call("sts:GetCallerIdentity", ok))
         /\ IF ok
            THEN /\ pc' = "step1"
                 /\ UNCHANGED <<raised, status>>
            ELSE \* raised outside the try block: no rollback
                 /\ pc' = "exit"
                 /\ raised' = [step |-> "init", cause |-> "sts:GetCallerIdentity",
                               kind |-> "ClientError"]
                 /\ status' = "failed"
    /\ UNCHANGED <<force, skip_verify, s3_bucket, iam_policy, iam_role, role_trust,
                   role_attached, sf_volume, created_bucket, created_policy,
                   created_role, sf_props, err, pre, made, role_wait, trust_wait,
                   verify_result, rb_log, wait_vars, other_vars>>


\* What the existence probes can answer, given the state of the account.
\* A transient failure ("500", "ServiceFailure") is possible while the
\* resource is ours or absent.
GetEntityCodes(entity) ==
    CASE entity = "present" -> {"ok", "ServiceFailure"}
      [] entity = "absent"  -> {"NoSuchEntity", "ServiceFailure"}
      [] entity = "denied"  -> {"AccessDenied"}

\* variant: a 403 from head_bucket is taken for "the bucket exists"
bucket_probe_branch_lenient(code) ==
    CASE code \in {"200", "403"} -> "exists"
      [] code = "404" -> "create"
      [] OTHER        -> "error"

\* create_s3_bucket: what the function does with the answer of head_bucket
bucket_probe_branch(code) ==
    CASE code = "200" -> "exists"
      [] code = "403" -> "denied"
      [] code = "404" -> "create"
      [] OTHER        -> "error"


\* Step 1: created_bucket = create_s3_bucket(...)
Step1_CreateBucket ==
    /\ pc = "step1"
    /\ \E code \in (CASE s3_bucket = "present" -> {"200", "500"}
                      [] s3_bucket = "absent"  -> {"404", "500"}
                      [] s3_bucket = "foreign" -> {"403"}) :
         LET branch == bucket_probe_branch(code)
             head == Call("s3:HeadBucket", code = "200")
         IN  CASE branch = "exists" ->
                    /\ calls' = Append(calls, head)
                    /\ created_bucket' = FALSE
                    /\ pc' = "step2"
                    /\ UNCHANGED <<s3_bucket, made, err>>
               [] branch = "denied" ->
                    /\ calls' = Append(calls, head)
                    /\ Raise("step1", "s3:HeadBucket:403", "ClickException")
                    /\ UNCHANGED <<s3_bucket, made, created_bucket>>
               [] branch = "error" ->
                    /\ calls' = Append(calls, head)
                    /\ Raise("step1", "s3:HeadBucket:other", "ClickException")
                    /\ UNCHANGED <<s3_bucket, made, created_bucket>>
               [] branch = "create" ->
                    \E create_ok \in (IF s3_bucket = "absent" THEN BOOLEAN ELSE {FALSE}),
                       versioning_ok \in BOOLEAN :
                      IF ~create_ok
                      THEN /\ calls' = calls \o <<head, Call("s3:CreateBucket", FALSE)>>
                           /\ Raise("step1", "s3:CreateBucket", "ClickException")
                           /\ UNCHANGED <<s3_bucket, made, created_bucket>>
                      ELSE IF ~versioning_ok
                      THEN \* the bucket exists now, but created_bucket was never assigned
                           /\ calls' = calls \o <<head, Call("s3:CreateBucket", TRUE),
                                                  Call("s3:PutBucketVersioning", FALSE)>>
                           /\ s3_bucket' = "present"
                           /\ made' = made \cup {"bucket"}
                           /\ Raise("step1", "s3:PutBucketVersioning", "ClickException")
                           /\ UNCHANGED created_bucket
                      ELSE /\ calls' = calls \o <<head, Call("s3:CreateBucket", TRUE),
                                                  Call("s3:PutBucketVersioning", TRUE)>>
                           /\ s3_bucket' = "present"
                           /\ made' = made \cup {"bucket"}
                           /\ created_bucket' = TRUE
                           /\ pc' = "step2"
                           /\ UNCHANGED err
    /\ UNCHANGED <<force, skip_verify, iam_policy, iam_role, role_trust,
                   role_attached, sf_volume, created_policy, created_role,
                   sf_props, raised, status, pre, role_wait, trust_wait,
                   verify_result, rb_log, wait_vars, other_vars>>

\* Step 2: policy_arn = create_iam_policy(...); created_policy = True
Step2_CreatePolicy ==
    /\ pc = "step2"
    /\ \/ \* get_caller_identity (outside the function's try block) fails
          /\ calls' = Append(calls, Call("sts:GetCallerIdentity", FALSE))
          /\ Raise("step2", "sts:GetCallerIdentity", "ClientError")
          /\ UNCHANGED <<iam_policy, made, created_policy>>
       \/ \E code \in GetEntityCodes(iam_policy) :
            LET \* what create_iam_policy does with the answer of get_policy
                branch == CASE code = "ok"           -> "exists"
                            [] code = "NoSuchEntity" -> "create"
                            [] OTHER                 -> "error"
                probe == <<Call("sts:GetCallerIdentity", TRUE),
                           Call("iam:GetPolicy", code = "ok")>>
            IN  CASE branch = "exists" ->
                       /\ calls' = calls \o probe
                       /\ created_policy' = TRUE
                       /\ pc' = "step3"
                       /\ UNCHANGED <<iam_policy, made, err>>
                  [] branch = "error" ->
                       /\ calls' = calls \o probe
                       /\ Raise("step2", "iam:GetPolicy:" \o code, "ClickException")
                       /\ UNCHANGED <<iam_policy, made, created_policy>>
                  [] branch = "create" ->
                       \E create_ok \in (IF iam_policy = "absent" THEN BOOLEAN ELSE {FALSE}) :
                         IF create_ok
                         THEN /\ calls' = calls \o probe \o <<Call("iam:CreatePolicy", TRUE)>>
                              /\ iam_policy' = "present"
                              /\ made' = made \cup {"policy"}
                              /\ created_policy' = TRUE
                              /\ pc' = "step3"
                              /\ UNCHANGED err
                         ELSE /\ calls' = calls \o probe \o <<Call("iam:CreatePolicy", FALSE)>>
                              /\ Raise("step2", "iam:CreatePolicy", "ClickException")
                              /\ UNCHANGED <<iam_policy, made, created_policy>>
    /\ UNCHANGED <<force, skip_verify, s3_bucket, iam_role, role_trust,
                   role_attached, sf_volume, created_bucket, created_role,
                   sf_props, raised, status, pre, role_wait, trust_wait,
                   verify_result, rb_log, wait_vars, other_vars>>

\* Step 3: role_arn = create_iam_role(...); created_role = True
Step3_CreateRole ==
    /\ pc = "step3"
    /\ \E code \in GetEntityCodes(iam_role) :
         LET \* what create_iam_role does with the answer of get_role
             branch == CASE code = "ok"           -> "exists"
                         [] code = "NoSuchEntity" -> "create"
                         [] OTHER                 -> "error"
             probe == Call("iam:GetRole", code = "ok")
         IN  CASE branch = "exists" ->
                    /\ calls' = Append(calls, probe)
                    /\ created_role' = TRUE
                    /\ pc' = "wait_role"
                    /\ UNCHANGED <<iam_role, role_trust, role_attached, made, err>>
               [] branch = "error" ->
                    /\ calls' = Append(calls, probe)
                    /\ Raise("step3", "iam:GetRole:" \o code, "ClickException")
                    /\ UNCHANGED <<iam_role, role_trust, role_attached, made, created_role>>
               [] branch = "create" ->
                    \E create_ok \in (IF iam_role = "absent" THEN BOOLEAN ELSE {FALSE}),
                       attach_ok \in BOOLEAN :
                      IF ~create_ok
                      THEN /\ calls' = calls \o <<probe, Call("iam:CreateRole", FALSE)>>
                           /\ Raise("step3", "iam:CreateRole", "ClickException")
                           /\ UNCHANGED <<iam_role, role_trust, role_attached, made,
                                          created_role>>
                      ELSE IF ~attach_ok
                      THEN \* the role exists now, but created_role was never assigned
                           /\ calls' = calls \o <<probe, Call("iam:CreateRole", TRUE),
                                                  Call("iam:AttachRolePolicy", FALSE)>>
                           /\ iam_role' = "present"
                           /\ role_trust' = get_initial_trust_policy("root", ConfigExternalId)
                           /\ made' = made \cup {"role"}
                           /\ Raise("step3", "iam:AttachRolePolicy", "ClickException")
                           /\ UNCHANGED <<role_attached, created_role>>
                      ELSE /\ calls' = calls \o <<probe, Call("iam:CreateRole", TRUE),
                                                  Call("iam:AttachRolePolicy", TRUE)>>
                           /\ iam_role' = "present"
                           /\ role_trust' = get_initial_trust_policy("root", ConfigExternalId)
                           /\ role_attached' = TRUE
                           /\ made' = made \cup {"role"}
                           /\ created_role' = TRUE
                           /\ pc' = "wait_role"
                           /\ UNCHANGED err
    /\ UNCHANGED <<force, skip_verify, s3_bucket, iam_policy, sf_volume,
                   created_bucket, created_policy, sf_props, raised, status, pre,
                   role_wait, trust_wait, verify_result, rb_log, wait_vars, other_vars>>

\* variant: an exhausted wait aborts the workflow
wait_for_iam_role_fatal(r) == IF r.result THEN "step4" ELSE "rollback_role"

\* wait_for_iam_role: where `create` continues after the waiter returned r.
\* It echoes a line and returns None either way.
wait_for_iam_role(r) == "step4"


\* Wait for IAM role propagation: the role becomes visible to get_role at
\* some invocation of check_role, or not within the attempt budget.
\* initial_delay=2.0, and the defaults max_delay=30.0, backoff_factor=2.0
WaitForIamRole ==
    /\ pc = "wait_role"
    /\ \E at \in 1..(RoleWaitAttempts + 1) :
         LET r == wait_with_backoff(VisibleFrom(at, RoleWaitAttempts), RoleWaitAttempts,
                                    2, 30, 2)
         IN  /\ role_wait' = r
             /\ calls' = Append(calls, Call("iam:GetRole:wait", r.result))
             /\ pc' = wait_for_iam_role(r)
    /\ UNCHANGED <<force, skip_verify, s3_bucket, iam_policy, iam_role, role_trust,
                   role_attached, sf_volume, created_bucket, created_policy,
                   created_role, sf_props, err, raised, status, pre, made,
                   trust_wait, verify_result, rb_log, wait_vars, other_vars>>

\* Step 4: create_external_volume(config, role_arn, force)
Step4_CreateVolume ==
    /\ pc = "step4"
    /\ \E ok \in BOOLEAN :
         /\ calls' = Append(calls, Call("snow:CreateExternalVolume", ok))
         /\ IF ~ok
            THEN /\ Raise("step4", "snow:CreateExternalVolume", "ClickException")
                 /\ UNCHANGED <<sf_volume, made>>
            ELSE /\ pc' = "step5"
                 /\ UNCHANGED err
                 /\ IF force \/ sf_volume = NoVolume
                    THEN \* CREATE OR REPLACE, or CREATE IF NOT EXISTS on a free name
                         /\ \E arn \in SnowflakeArns :
                              sf_volume' = [arn |-> arn, external_id |-> ConfigExternalId]
                         /\ made' = made \cup {"volume"}
                    ELSE \* CREATE IF NOT EXISTS on an existing volume: a no-op
                         UNCHANGED <<sf_volume, made>>
    /\ UNCHANGED <<force, skip_verify, s3_bucket, iam_policy, iam_role, role_trust,
                   role_attached, created_bucket, created_policy, created_role,
                   sf_props, raised, status, pre, role_wait, trust_wait,
                   verify_result, rb_log, wait_vars, other_vars>>


\* Step 5: sf_props = describe_external_volume(config.volume_name)
Step5_Describe ==
    /\ pc = "step5"
    /\ \E outcome \in {"sql_failed", "no_rows", "no_iam_user_arn", "arn_only",
                         "arn_and_external_id"} :
         /\ calls' = Append(calls, Call("snow:DescribeExternalVolume", outcome # "sql_failed"))
         /\ CASE outcome = "arn_and_external_id" ->
                   /\ sf_props' = [iam_user_arn |-> sf_volume.arn,
                                   external_id |-> sf_volume.external_id]
                   /\ pc' = "step6"
                   /\ UNCHANGED err
              [] outcome = "arn_only" ->
                   /\ sf_props' = [iam_user_arn |-> sf_volume.arn, external_id |-> "none"]
                   /\ pc' = "step6"
                   /\ UNCHANGED err
              [] OTHER ->
                   /\ Raise("step5", "describe:" \o outcome, "ClickException")
                   /\ UNCHANGED sf_props
    /\ UNCHANGED <<force, skip_verify, s3_bucket, iam_policy, iam_role, role_trust,
                   role_attached, sf_volume, created_bucket, created_policy,
                   created_role, raised, status, pre, made, role_wait, trust_wait,
                   verify_result, rb_log, wait_vars, other_vars>>

\* sf_props.get("external_id", config.external_id)
actual_external_id(props) ==
    IF props.external_id = "none" THEN ConfigExternalId ELSE props.external_id

\* Step 6: update_role_trust_policy(iam_client, role, sf_props["iam_user_arn"], actual_external_id)
Step6_UpdateTrust ==
    /\ pc = "step6"
    /\ \E ok \in (IF iam_role = "present" THEN BOOLEAN ELSE {FALSE}) :
         /\ calls' = Append(calls, Call("iam:UpdateAssumeRolePolicy", ok))
         /\ IF ok
            THEN /\ role_trust' = get_snowflake_trust_policy(sf_props.iam_user_arn,
                                                             actual_external_id(sf_props))
                 /\ pc' = "wait_trust"
                 /\ UNCHANGED err
            ELSE /\ Raise("step6", "iam:UpdateAssumeRolePolicy", "ClickException")
                 /\ UNCHANGED role_trust
    /\ UNCHANGED <<force, skip_verify, s3_bucket, iam_policy, iam_role,
                   role_attached, sf_volume, created_bucket, created_policy,
                   created_role, sf_props, raised, status, pre, made, role_wait,
                   trust_wait, verify_result, rb_log, wait_vars, other_vars>>

\* Wait for trust policy propagation
WaitForTrustPolicy ==
    /\ pc = "wait_trust"
    /\ \E at \in 1..(TrustWaitAttempts + 1) :
         LET r == wait_with_backoff(VisibleFrom(at, TrustWaitAttempts), TrustWaitAttempts,
                                    2, 30, 2)
         IN  /\ trust_wait' = r
             /\ calls' = Append(calls, Call("iam:GetRole:wait_trust", r.result))
             /\ pc' = "step7"   \* wait_for_trust_policy returns None either way
    /\ UNCHANGED <<force, skip_verify, s3_bucket, iam_policy, iam_role, role_trust,
                   role_attached, sf_volume, created_bucket, created_policy,
                   created_role, sf_props, err, raised, status, pre, made,
                   role_wait, verify_result, rb_log, wait_vars, other_vars>>


\* Step 7: if not skip_verify: verify_external_volume(config.volume_name)
Step7_Verify ==
    /\ pc = "step7"
    /\ IF skip_verify
       THEN /\ verify_result' = "skipped"
            /\ pc' = "finish"
            /\ UNCHANGED <<calls, err>>
       ELSE \E outcome \in {"sql_failed", "success", "failure", "unknown"} :
              /\ calls' = Append(calls, Call("snow:VerifyExternalVolume", outcome # "sql_failed"))
              /\ IF outcome = "sql_failed"
                 THEN /\ Raise("step7", "snow:VerifyExternalVolume", "ClickException")
                      /\ UNCHANGED verify_result
                 ELSE \* the function echoes the result and returns None
                      /\ verify_result' = outcome
                      /\ pc' = "finish"
                      /\ UNCHANGED err
    /\ UNCHANGED <<force, skip_verify, s3_bucket, iam_policy, iam_role, role_trust,
                   role_attached, sf_volume, created_bucket, created_policy,
                   created_role, sf_props, raised, status, pre, made, role_wait,
                   trust_wait, rb_log, wait_vars, other_vars>>

\* After the try block: the success result / completion banner
Finish ==
    /\ pc = "finish"
    /\ status' = "success"
    /\ pc' = "exit"
    /\ UNCHANGED <<force, skip_verify, s3_bucket, iam_policy, iam_role, role_trust,
                   role_attached, sf_volume, created_bucket, created_policy,
                   created_role, sf_props, err, raised, calls, pre, made, role_wait,
                   trust_wait, verify_result, rb_log, wait_vars, other_vars>>

----------------------------------------------------------------------------
\* rollback_aws_resources: three guarded deletions, each in its own
\* try/except that echoes the failure

\* variant: the policy deletion is left out
rollback_after_skip_policy(resource, ok) ==
    CASE resource = "role"   -> "rollback_bucket"
      [] resource = "policy" -> "rollback_bucket"
      [] resource = "bucket" -> "reraise"

\* variant: the bucket is deleted before the policy
rollback_after_bucket_first(resource, ok) ==
    CASE resource = "role"   -> "rollback_bucket"
      [] resource = "bucket" -> "rollback_policy"
      [] resource = "policy" -> "reraise"

\* variant: the first failing deletion ends rollback
rollback_after_abort(resource, ok) ==
    IF ~ok THEN "reraise"
    ELSE CASE resource = "role"   -> "rollback_policy"
           [] resource = "policy" -> "rollback_bucket"
           [] resource = "bucket" -> "reraise"

\* where rollback continues after the deletion of `resource` ended (ok or not)
rollback_after(resource, ok) ==
    CASE resource = "role"   -> "rollback_policy"
      [] resource = "policy" -> "rollback_bucket"
      [] resource = "bucket" -> "reraise"

\* what delete_role / delete_policy can answer
DeleteEntityCodes(entity, attached) ==
    CASE entity = "absent" -> {"NoSuchEntity"}
      [] entity = "denied" -> {"AccessDenied"}
      [] entity = "present" -> IF attached THEN {"DeleteConflict"}
                               ELSE {"ok", "ServiceFailure"}

\* variant: NoSuchEntity is not swallowed
delete_raises_any(code) == code # "ok"

\* delete_iam_role / delete_iam_policy: NoSuchEntity is swallowed, any other
\* error code becomes a ClickException
delete_raises(code) == code \notin {"ok", "NoSuchEntity"}

\* if created_role: delete_iam_role(iam_client, config.role_name, policy_arn)
RollbackRole ==
    /\ pc = "rollback_role"
    /\ IF ~created_role
       THEN /\ pc' = rollback_after("role", TRUE)
            /\ UNCHANGED <<iam_role, role_trust, role_attached, calls, rb_log>>
       ELSE \E detach_ok \in (IF iam_role = "present" /\ role_attached
                              THEN BOOLEAN ELSE {FALSE}) :
              LET attached == role_attached /\ ~detach_ok
              IN  \E code \in DeleteEntityCodes(iam_role, attached) :
                    /\ calls' = calls \o <<Call("iam:DetachRolePolicy", detach_ok),
                                           Call("iam:DeleteRole", code = "ok")>>
                    /\ IF code = "ok"
                       THEN /\ iam_role' = "absent"
                            /\ role_trust' = NoTrust
                            /\ role_attached' = FALSE
                       ELSE /\ role_attached' = attached
                            /\ UNCHANGED <<iam_role, role_trust>>
                    /\ rb_log' = IF delete_raises(code) THEN Append(rb_log, "role")
                                 ELSE rb_log
                    /\ pc' = rollback_after("role", ~delete_raises(code))
    /\ UNCHANGED <<force, skip_verify, s3_bucket, iam_policy, sf_volume,
                   created_bucket, created_policy, created_role, sf_props, err,
                   raised, status, pre, made, role_wait, trust_wait, verify_result,
                   wait_vars, other_vars>>

\* if created_policy: delete_iam_policy(iam_client, policy_arn)
RollbackPolicy ==
    /\ pc = "rollback_policy"
    /\ IF ~created_policy
       THEN /\ pc' = rollback_after("policy", TRUE)
            /\ UNCHANGED <<iam_policy, calls, rb_log>>
       ELSE \E code \in DeleteEntityCodes(iam_policy, role_attached) :
              /\ calls' = Append(calls, Call("iam:DeletePolicy", code = "ok"))
              /\ iam_policy' = IF code = "ok" THEN "absent" ELSE iam_policy
              /\ rb_log' = IF delete_raises(code) THEN Append(rb_log, "policy")
                           ELSE rb_log
              /\ pc' = rollback_after("policy", ~delete_raises(code))
    /\ UNCHANGED <<force, skip_verify, s3_bucket, iam_role, role_trust,
                   role_attached, sf_volume, created_bucket, created_policy,
                   created_role, sf_props, err, raised, status, pre, made,
                   role_wait, trust_wait, verify_result, wait_vars, other_vars>>

\* if created_bucket: delete_s3_bucket(s3_client, config.bucket_name, force=False)
RollbackBucket ==
    /\ pc = "rollback_bucket"
    /\ IF ~created_bucket
       THEN /\ pc' = rollback_after("bucket", TRUE)
            /\ UNCHANGED <<s3_bucket, calls, rb_log>>
       ELSE \E ok \in (IF s3_bucket = "present" THEN BOOLEAN ELSE {FALSE}) :
              /\ calls' = Append(calls, Call("s3:DeleteBucket", ok))
              /\ s3_bucket' = IF ok THEN "absent" ELSE s3_bucket
              /\ rb_log' = IF ok THEN rb_log ELSE Append(rb_log, "bucket")
              /\ pc' = rollback_after("bucket", ok)
    /\ UNCHANGED <<force, skip_verify, iam_policy, iam_role, role_trust,
                   role_attached, sf_volume, created_bucket, created_policy,
                   created_role, sf_props, err, raised, status, pre, made,
                   role_wait, trust_wait, verify_result, wait_vars, other_vars>>

\* variant: a failure inside rollback replaces the exception in flight
reraise_masked(e, rollback_failures) ==
    IF rollback_failures # <<>>
    THEN [step |-> "rollback", cause |-> rollback_failures[Len(rollback_failures)],
          kind |-> "ClickException"]
    ELSE e

\* The except clauses of `create` after rollback: a ClickException is raised
\* again as it is, any other exception wrapped into a ClickException
reraise(e, rollback_failures) ==
    IF e.kind = "ClickException" THEN e
    ELSE [e EXCEPT !.kind = "ClickException:Unexpected error"]

Reraise ==
    /\ pc = "reraise"
    /\ raised' = reraise(err, rb_log)
    /\ status' = "failed"
    /\ pc' = "exit"
    /\ UNCHANGED <<force, skip_verify, s3_bucket, iam_policy, iam_role, role_trust,
                   role_attached, sf_volume, created_bucket, created_policy,
                   created_role, sf_props, err, calls, pre, made, role_wait,
                   trust_wait, verify_result, rb_log, wait_vars, other_vars>>

----------------------------------------------------------------------------
\* The waiter on its own

NoArgs == [check_fn |-> <<>>, max_attempts |-> 0 - 1, initial_delay |-> 0,
           max_delay |-> 0, backoff_factor |-> 0]


WaitCall ==
    /\ w_args # NoArgs
    /\ w_ret = NoRet
    /\ w_ret' = wait_with_backoff(w_args.check_fn, w_args.max_attempts,
                                  w_args.initial_delay, w_args.max_delay,
                                  w_args.backoff_factor)
    /\ UNCHANGED <<w_args, create_vars, other_vars>>

----------------------------------------------------------------------------
\* Part 2: the reconcile operations called on their own
\*   snow-utils-networks/scripts/network.py, snow-utils-pat/scripts/network.py,
\*   the delete helpers and the `delete` command of extvolume.py

\* A name is kept as its parts, so that str.replace can be computed on it
RECURSIVE Join(_)
Join(parts) == IF parts = <<>> THEN "" ELSE Head(parts) \o Join(Tail(parts))


RuleDb == "DB"
RuleSchema == "NETWORKS"
RuleName == <<"APP", "_NETWORK_RULE">>
\* another rule of the account, which policies may also list
OtherRuleFqn == "DB.NETWORKS.OTHER_RULE"
PolicyNames == {"APP_NETWORK_POLICY", "EXTRA_POLICY"}
VolumeName == "APP_EXTERNAL_VOLUME"

\* f"{db}.{schema}.{name}"
rule_fqn(db, schema, name) == db \o "." \o schema \o "." \o Join(name)

TheRuleFqn == rule_fqn(RuleDb, RuleSchema, RuleName)

\* VALID_MODE_TYPES: every member of NetworkRuleMode is a key
VALID_MODE_TYPES ==
    [INGRESS |-> {"IPV4", "AWSVPCEID"},
     INTERNAL_STAGE |-> {"IPV4", "AWSVPCEID"},
     EGRESS |-> {"IPV4", "HOST_PORT"},
     POSTGRES_INGRESS |-> {"IPV4", "AWSVPCEID"},
     POSTGRES_EGRESS |-> {"IPV4", "HOST_PORT"}]

\* variant: the table is not consulted for the egress modes
validate_mode_type_lax(mode, rule_type) ==
    mode \in {"EGRESS", "POSTGRES_EGRESS"} \/ rule_type \in VALID_MODE_TYPES[mode]

\* VALID_MODE_TYPES.get(mode, [])
validate_mode_type(mode, rule_type) ==
    IF mode \in DOMAIN VALID_MODE_TYPES THEN rule_type \in VALID_MODE_TYPES[mode]
    ELSE FALSE

\* ---- the objects of the account
NoRule == [exists |-> FALSE, values |-> "", mode |-> "", type |-> ""]
NoPolicy == [exists |-> FALSE, rules |-> {}]
NoExtVolume == [exists |-> FALSE, role_arn |-> "", allow_writes |-> FALSE]

Rule(values, mode, type) ==
    [exists |-> TRUE, values |-> values, mode |-> mode, type |-> type]
Policy(rules) == [exists |-> TRUE, rules |-> rules]
ExtVolume(role_arn, allow_writes) ==
    [exists |-> TRUE, role_arn |-> role_arn, allow_writes |-> allow_writes]

\* the policies that list the rule
Referencing(a, fqn) ==
    {p \in PolicyNames : a.policies[p].exists /\ fqn \in a.policies[p].rules}

\* ---- SQL statements, as the templates build them
NoBody == [values |-> "", mode |-> "", type |-> "", rules |-> {},
           role_arn |-> "", allow_writes |-> FALSE]

Stmt(verb, kind, name, body) ==
    [verb |-> verb, kind |-> kind, name |-> name, body |-> body]

RuleBody(values, mode, type) ==
    [NoBody EXCEPT !.values = values, !.mode = mode, !.type = type]
RulesBody(rules) == [NoBody EXCEPT !.rules = rules]

\* ---- what the Snowflake account does with one statement.
\* strict (a property of the account, acct.strict): it rejects replacing,
\* altering or dropping a rule that a policy lists.  Returns the outcome and
\* the account afterwards.
Done(a) == [ok |-> TRUE, acct |-> a]
Rejected(a) == [ok |-> FALSE, acct |-> a]


exec_sql(s, a, strict) ==
    LET exec_rule ==
          LET new == Rule(s.body.values, s.body.mode, s.body.type)
              held == strict /\ a.rule.exists /\ Referencing(a, s.name) # {}
          IN  CASE s.verb = "CREATE" ->
                     IF a.rule.exists THEN Rejected(a)
                     ELSE Done([a EXCEPT !.rule = new])
                [] s.verb = "CREATE OR REPLACE" ->
                     IF held THEN Rejected(a) ELSE Done([a EXCEPT !.rule = new])
                [] s.verb = "ALTER SET VALUE_LIST" ->
                     IF ~a.rule.exists \/ held THEN Rejected(a)
                     ELSE Done([a EXCEPT !.rule.values = s.body.values])
                [] s.verb = "DROP IF EXISTS" ->
                     IF held THEN Rejected(a) ELSE Done([a EXCEPT !.rule = NoRule])
        exec_policy ==
          LET cur == IF s.name \in PolicyNames THEN a.policies[s.name] ELSE NoPolicy
              put(v) == IF s.name \in PolicyNames
                        THEN [a EXCEPT !.policies[s.name] = v] ELSE a
          IN  CASE s.verb = "CREATE" ->
                     IF cur.exists THEN Rejected(a) ELSE Done(put(Policy(s.body.rules)))
                [] s.verb = "CREATE OR REPLACE" -> Done(put(Policy(s.body.rules)))
                [] s.verb = "CREATE IF NOT EXISTS" ->
                     IF cur.exists THEN Done(a) ELSE Done(put(Policy(s.body.rules)))
                [] s.verb = "ALTER IF EXISTS SET RULE_LIST" ->
                     IF cur.exists THEN Done(put(Policy(s.body.rules))) ELSE Done(a)
                [] s.verb = "ALTER ADD RULE_LIST" ->
                     IF cur.exists THEN Done(put(Policy(cur.rules \cup s.body.rules)))
                     ELSE Rejected(a)
                [] s.verb = "DESC" -> IF cur.exists THEN Done(a) ELSE Rejected(a)
                [] s.verb = "DROP IF EXISTS" -> Done(put(NoPolicy))
        exec_volume ==
          LET new == ExtVolume(s.body.role_arn, s.body.allow_writes)
          IN  CASE s.verb = "CREATE OR REPLACE" -> Done([a EXCEPT !.volume = new])
                [] s.verb = "CREATE IF NOT EXISTS" ->
                     IF a.volume.exists THEN Done(a) ELSE Done([a EXCEPT !.volume = new])
                [] s.verb = "DROP IF EXISTS" -> Done([a EXCEPT !.volume = NoExtVolume])
    IN  CASE s.kind = "NETWORK RULE" -> exec_rule
          [] s.kind = "NETWORK POLICY" -> exec_policy
          [] s.kind = "EXTERNAL VOLUME" -> exec_volume

\* run_snow_sql_stdin / run_snow_sql with check=True: the statement is handed
\* to the snow CLI; a non-zero exit becomes a ClickException.  fault: the CLI
\* fails before the statement runs (no connection, no privilege).
run_snow_sql_stdin(s, a, strict, fault) ==
    IF fault THEN Rejected(a) ELSE exec_sql(s, a, strict)


\* variant: run_snow_sql takes any keyword
raises_TypeError_never(keywords) == FALSE

\* a call that passes another keyword raises TypeError before anything runs
\* run_snow_sql(query, *, format, check): a call that passes another keyword
\* raises TypeError before anything runs
raises_TypeError(keywords) == ~(keywords \subseteq {"format", "check"})

\* ---- results of the operations
\* ok: no exception left the call; ret: the value returned; acct: the account
\* afterwards; stmts: the statements and API calls handed out, in order
Res(ok, ret, a, stmts) == [ok |-> ok, ret |-> ret, acct |-> a, stmts |-> stmts]

Inv(role, s) == [role |-> role, stmt |-> s]

\* Runs the invocations in order; the first one that fails raises and the
\* rest is never issued.  fault names the invocation the CLI fails at.
RECURSIVE run_all(_, _, _, _, _)
run_all(invs, a, strict, fault, issued) ==
    IF invs = <<>> THEN [ok |-> TRUE, acct |-> a, stmts |-> issued]
    ELSE LET i == Head(invs)
             r == run_snow_sql_stdin(i.stmt, a, strict, fault = i.role)
         IN  IF r.ok THEN run_all(Tail(invs), r.acct, strict, fault, Append(issued, i))
             ELSE [ok |-> FALSE, acct |-> r.acct, stmts |-> Append(issued, i)]

\* ---- snow-utils-networks/scripts/network.py

get_network_rule_sql(name, db, schema, values, mode, rule_type, forced) ==
    Stmt("CREATE OR REPLACE", "NETWORK RULE", rule_fqn(db, schema, name),
         RuleBody(values, mode, rule_type))


\* variant: the probe is run without the role keyword
get_policies_for_rule_run(fqn, expected_policy_name, a, fault) ==
    LET s == Stmt("DESC", "NETWORK POLICY", expected_policy_name, NoBody)
        r == run_snow_sql_stdin(s, a, FALSE, fault)
    IN  [found |-> IF r.ok /\ fqn \in a.policies[expected_policy_name].rules
                   THEN <<expected_policy_name>> ELSE <<>>,
         stmts |-> <<Inv("probe", s)>>]

\* DESC NETWORK POLICY <expected> through run_snow_sql(..., role=admin_role);
\* any exception is swallowed and the answer is then the empty list
get_policies_for_rule(fqn, expected_policy_name, a, fault) ==
    IF raises_TypeError({"role"})
    THEN [found |-> <<>>, stmts |-> <<>>]
    ELSE LET s == Stmt("DESC", "NETWORK POLICY", expected_policy_name, NoBody)
             r == run_snow_sql_stdin(s, a, FALSE, fault)
         IN  [found |-> IF r.ok /\ fqn \in a.policies[expected_policy_name].rules
                        THEN <<expected_policy_name>> ELSE <<>>,
              stmts |-> <<Inv("probe", s)>>]


\* variant: --dry-run is not looked at
create_network_rule_wet(g, a, e) ==
    IF ~validate_mode_type(g.mode, g.type) THEN Res(FALSE, "", a, <<>>)
    ELSE
      LET fqn == rule_fqn(g.db, g.schema, g.name)
          sql == get_network_rule_sql(g.name, g.db, g.schema, g.values, g.mode,
                                      g.type, g.force)
          r == run_all(<<Inv("replace", sql)>>, a, a.strict, e.fault, <<>>)
      IN  Res(r.ok, IF r.ok THEN fqn ELSE "", r.acct, r.stmts)

create_network_rule(g, a, e) ==
    IF ~validate_mode_type(g.mode, g.type) THEN Res(FALSE, "", a, <<>>)
    ELSE
      LET fqn == rule_fqn(g.db, g.schema, g.name)
          sql == get_network_rule_sql(g.name, g.db, g.schema, g.values, g.mode,
                                      g.type, g.force)
      IN  IF g.dry_run THEN Res(TRUE, fqn, a, <<>>)
          ELSE
            LET expected_policy ==
                    Join([i \in DOMAIN g.name |->
                            IF g.name[i] = "_NETWORK_RULE" THEN "_NETWORK_POLICY"
                            ELSE g.name[i]])
                probe == get_policies_for_rule(fqn, expected_policy, a,
                                               e.fault = "probe")
                attached_policies == probe.found
                detach_rule_from_policy(policy_name) ==
                    Inv("detach", Stmt("ALTER IF EXISTS SET RULE_LIST", "NETWORK POLICY",
                                       policy_name, RulesBody({})))
                reattach_rule_to_policy(policy_name, rule) ==
                    Inv("reattach", Stmt("ALTER IF EXISTS SET RULE_LIST", "NETWORK POLICY",
                                         policy_name, RulesBody({rule})))
                script ==
                    [i \in DOMAIN attached_policies |->
                        detach_rule_from_policy(attached_policies[i])]
                    \o <<Inv("replace", sql)>>
                    \o [i \in DOMAIN attached_policies |->
                        reattach_rule_to_policy(attached_policies[i], fqn)]
                r == run_all(script, a, a.strict, e.fault, probe.stmts)
            IN  Res(r.ok, IF r.ok THEN fqn ELSE "", r.acct, r.stmts)

create_network_policy(g, a, e) ==
    LET \* get_network_policy_sql
        sql == Stmt("CREATE IF NOT EXISTS", "NETWORK POLICY", g.policy_name,
                    RulesBody(g.rule_refs))
    IN  IF g.dry_run THEN Res(TRUE, "", a, <<>>)
        ELSE LET r == run_all(<<Inv("run", sql)>>, a, a.strict, e.fault, <<>>)
             IN  Res(r.ok, "", r.acct, r.stmts)

alter_network_policy(g, a, e) ==
    LET \* get_alter_network_policy_sql
        sql == Stmt("ALTER ADD RULE_LIST", "NETWORK POLICY", g.policy_name,
                    RulesBody(g.rule_refs))
    IN  IF g.dry_run THEN Res(TRUE, "", a, <<>>)
        ELSE LET r == run_all(<<Inv("run", sql)>>, a, a.strict, e.fault, <<>>)
             IN  Res(r.ok, "", r.acct, r.stmts)

update_network_rule(g, a, e) ==
    LET \* get_update_network_rule_sql
        sql == Stmt("ALTER SET VALUE_LIST", "NETWORK RULE",
                    rule_fqn(g.db, g.schema, g.name), RuleBody(g.values, "", ""))
        fqn == rule_fqn(g.db, g.schema, g.name)
    IN  IF g.dry_run THEN Res(TRUE, fqn, a, <<>>)
        ELSE LET r == run_all(<<Inv("run", sql)>>, a, a.strict, e.fault, <<>>)
             IN  Res(r.ok, IF r.ok THEN fqn ELSE "", r.acct, r.stmts)

delete_network_rule(g, a, e) ==
    LET sql == Stmt("DROP IF EXISTS", "NETWORK RULE",
                    rule_fqn(g.db, g.schema, g.name), NoBody)
        r == run_all(<<Inv("run", sql)>>, a, a.strict, e.fault, <<>>)
    IN  Res(r.ok, "", r.acct, r.stmts)

delete_network_policy(g, a, e) ==
    LET sql == Stmt("DROP IF EXISTS", "NETWORK POLICY", g.policy_name, NoBody)
        r == run_all(<<Inv("run", sql)>>, a, a.strict, e.fault, <<>>)
    IN  Res(r.ok, "", r.acct, r.stmts)

\* ---- snow-utils-pat/scripts/network.py

\* get_admin_role(): SA_ADMIN_ROLE must be set
get_admin_role_raises(sa_admin_role) == sa_admin_role = ""


pat_create_network_rule(g, a, e) ==
    IF ~validate_mode_type(g.mode, g.type) THEN Res(FALSE, "", a, <<>>)
    ELSE IF get_admin_role_raises(g.admin_role) THEN Res(FALSE, "", a, <<>>)
    ELSE
      LET \* get_network_rule_sql
          sql == Stmt(IF g.force THEN "CREATE OR REPLACE" ELSE "CREATE", "NETWORK RULE",
                      rule_fqn(g.db, g.schema, g.name),
                      RuleBody(g.values, g.mode, g.type))
          fqn == rule_fqn(g.db, g.schema, g.name)
      IN  IF g.dry_run THEN Res(TRUE, fqn, a, <<>>)
          ELSE LET r == run_all(<<Inv("replace", sql)>>, a, a.strict, e.fault, <<>>)
               IN  Res(r.ok, IF r.ok THEN fqn ELSE "", r.acct, r.stmts)

pat_create_network_policy(g, a, e) ==
    IF get_admin_role_raises(g.admin_role) THEN Res(FALSE, "", a, <<>>)
    ELSE
      LET \* get_network_policy_sql
          sql == Stmt(IF g.force THEN "CREATE OR REPLACE" ELSE "CREATE",
                      "NETWORK POLICY", g.policy_name, RulesBody(g.rule_refs))
      IN  IF g.dry_run THEN Res(TRUE, "", a, <<>>)
          ELSE LET r == run_all(<<Inv("run", sql)>>, a, a.strict, e.fault, <<>>)
               IN  Res(r.ok, "", r.acct, r.stmts)

pat_delete_network_rule(g, a, e) ==
    IF get_admin_role_raises(g.admin_role) THEN Res(FALSE, "", a, <<>>)
    ELSE
      LET sql == Stmt("DROP IF EXISTS", "NETWORK RULE",
                      rule_fqn(g.db, g.schema, g.name), NoBody)
          r == run_all(<<Inv("run", sql)>>, a, a.strict, e.fault, <<>>)
      IN  Res(r.ok, "", r.acct, r.stmts)

pat_delete_network_policy(g, a, e) ==
    IF get_admin_role_raises(g.admin_role) THEN Res(FALSE, "", a, <<>>)
    ELSE
      LET sql == Stmt("DROP IF EXISTS", "NETWORK POLICY", g.policy_name, NoBody)
          r == run_all(<<Inv("run", sql)>>, a, a.strict, e.fault, <<>>)
      IN  Res(r.ok, "", r.acct, r.stmts)

\* ---- extvolume.py: the external volume and the cloud objects

Api(role, name) == Inv(role, Stmt(role, "AWS", name, NoBody))


create_external_volume(g, a, e) ==
    LET \* get_external_volume_sql
        sql == Stmt(IF g.force THEN "CREATE OR REPLACE" ELSE "CREATE IF NOT EXISTS",
                    "EXTERNAL VOLUME", g.volume_name,
                    [NoBody EXCEPT !.role_arn = g.role_arn,
                                   !.allow_writes = g.allow_writes])
        r == run_all(<<Inv("run", sql)>>, a, a.strict, e.fault, <<>>)
    IN  Res(r.ok, "", r.acct, r.stmts)

drop_external_volume(g, a, e) ==
    LET sql == Stmt("DROP IF EXISTS", "EXTERNAL VOLUME", g.volume_name, NoBody)
        r == run_all(<<Inv("run", sql)>>, a, a.strict, e.fault, <<>>)
    IN  Res(r.ok, "", r.acct, r.stmts)


delete_iam_role(g, a, e) ==
    LET detached == a.role = "present" /\ a.role_attached
                    /\ e.fault # "iam:DetachRolePolicy"
        a1 == IF detached THEN [a EXCEPT !.role_attached = FALSE] ELSE a
        code == IF a1.role = "absent" THEN "NoSuchEntity"
                ELSE IF e.fault = "iam:DeleteRole" THEN "AccessDenied"
                ELSE IF a1.role_attached THEN "DeleteConflict" ELSE "ok"
        a2 == IF code = "ok" THEN [a1 EXCEPT !.role = "absent"] ELSE a1
    IN  Res(~delete_raises(code), "", a2,
            <<Api("iam:DetachRolePolicy", "role"), Api("iam:DeleteRole", "role")>>)

delete_iam_policy(g, a, e) ==
    LET code == IF a.iam_policy = "absent" THEN "NoSuchEntity"
                ELSE IF e.fault = "iam:DeletePolicy" THEN "AccessDenied"
                ELSE IF a.role_attached THEN "DeleteConflict" ELSE "ok"
        a1 == IF code = "ok" THEN [a EXCEPT !.iam_policy = "absent"] ELSE a
    IN  Res(~delete_raises(code), "", a1, <<Api("iam:DeletePolicy", "policy")>>)

\* every ClientError of the listing or of the deletion becomes a ClickException
delete_s3_bucket(g, a, e) ==
    LET list == Api("s3:ListObjectVersions", "bucket")
        objs == Api("s3:DeleteObjects", "bucket")
        del == Api("s3:DeleteBucket", "bucket")
        list_ok == a.bucket # "absent" /\ e.fault # "s3:ListObjectVersions"
        objs_ok == e.fault # "s3:DeleteObjects"
        del_ok(b) == b = "empty" /\ e.fault # "s3:DeleteBucket"
    IN  IF g.force
        THEN IF ~list_ok THEN Res(FALSE, "", a, <<list>>)
             ELSE IF a.bucket = "nonempty"
             THEN IF ~objs_ok THEN Res(FALSE, "", a, <<list, objs>>)
                  ELSE IF del_ok("empty")
                  THEN Res(TRUE, "", [a EXCEPT !.bucket = "absent"], <<list, objs, del>>)
                  ELSE Res(FALSE, "", [a EXCEPT !.bucket = "empty"], <<list, objs, del>>)
             ELSE IF del_ok(a.bucket)
                  THEN Res(TRUE, "", [a EXCEPT !.bucket = "absent"], <<list, del>>)
                  ELSE Res(FALSE, "", a, <<list, del>>)
        ELSE IF del_ok(a.bucket)
             THEN Res(TRUE, "", [a EXCEPT !.bucket = "absent"], <<del>>)
             ELSE Res(FALSE, "", a, <<del>>)

\* the `delete` command: account id, then volume, role, policy and, with
\* --delete-bucket, the bucket; the first exception ends the command
delete(g, a, e) ==
    LET sts == Api("sts:GetCallerIdentity", "account")
    IN  IF e.fault = "sts:GetCallerIdentity" THEN Res(FALSE, "", a, <<sts>>)
        ELSE
          LET r1 == drop_external_volume(g, a, e)
              r2 == delete_iam_role(g, r1.acct, e)
              r3 == delete_iam_policy(g, r2.acct, e)
              r4 == delete_s3_bucket(g, r3.acct, e)
              s1 == <<sts>> \o r1.stmts
              s2 == s1 \o r2.stmts
              s3 == s2 \o r3.stmts
          IN  IF ~r1.ok THEN Res(FALSE, "", r1.acct, s1)
              ELSE IF ~r2.ok THEN Res(FALSE, "", r2.acct, s2)
              ELSE IF ~r3.ok THEN Res(FALSE, "", r3.acct, s3)
              ELSE IF ~g.delete_bucket THEN Res(TRUE, "", r3.acct, s3)
              ELSE Res(r4.ok, "", r4.acct, s3 \o r4.stmts)

\* ---- the operations as steps

NoOp == [name |-> "none", impl |-> "none", args |-> <<>>, env |-> <<>>,
         ok |-> TRUE, ret |-> "", stmts |-> <<>>]

EmptyAcct ==
    [rule |-> NoRule, policies |-> [p \in PolicyNames |-> NoPolicy],
     strict |-> FALSE,
     volume |-> NoExtVolume, role |-> "absent", role_attached |-> FALSE,
     iam_policy |-> "absent", bucket |-> "absent"]


\* An operation is called on the account as it is, or called once more
\* with the arguments of the call before.
Apply(n, impl, g, e, r) ==
    /\ (op = NoOp \/ (op.name = n /\ op.impl = impl /\ op.args = g))
    /\ acct' = r.acct
    /\ acct_before' = acct
    /\ op' = [name |-> n, impl |-> impl, args |-> g, env |-> e, ok |-> r.ok,
              ret |-> r.ret, stmts |-> r.stmts]
    /\ again' = IF op = NoOp THEN [is |-> FALSE, ok |-> FALSE, ret |-> ""]
                ELSE [is |-> TRUE, ok |-> op.ok, ret |-> op.ret]
    /\ UNCHANGED <<create_vars, wait_vars, cmd_vars, lib_vars>>

ValueLists == {"cidr_a", "cidr_b"}

\* modes: members of NetworkRuleMode; types: members of NetworkRuleType
RuleArgs(admin_roles, modes, types) ==
    [name : {RuleName}, db : {RuleDb}, schema : {RuleSchema}, values : ValueLists,
     mode : modes, type : types, dry_run : BOOLEAN, force : BOOLEAN,
     admin_role : admin_roles]

PolicyArgs(admin_roles) ==
    [policy_name : PolicyNames, rule_refs : {{TheRuleFqn}, {TheRuleFqn, OtherRuleFqn}},
     dry_run : BOOLEAN, force : BOOLEAN, admin_role : admin_roles]

\* fault: the invocation that fails for a reason outside the account's objects
Env(faults) == [fault : {"none"} \cup faults]

CreateNetworkRule ==
    \E g \in RuleArgs({"accountadmin"}, DOMAIN VALID_MODE_TYPES,
                       {"IPV4", "HOST_PORT", "PRIVATE_HOST_PORT", "AWSVPCEID"}),
       e \in Env({"probe", "replace"}) :
         Apply("create_network_rule", "networks", g, e, create_network_rule(g, acct, e))

CreateNetworkPolicy ==
    \E g \in PolicyArgs({"accountadmin"}), e \in Env({"run"}) :
         Apply("create_network_policy", "networks", g, e,
               create_network_policy(g, acct, e))

AlterNetworkPolicy ==
    \E g \in [policy_name : PolicyNames, rule_refs : {{TheRuleFqn}, {OtherRuleFqn}},
              dry_run : BOOLEAN],
       e \in Env({"run"}) :
         Apply("alter_network_policy", "networks", g, e,
               alter_network_policy(g, acct, e))

UpdateNetworkRule ==
    \E g \in [name : {RuleName}, db : {RuleDb}, schema : {RuleSchema},
              values : ValueLists, dry_run : BOOLEAN],
       e \in Env({"run"}) :
         Apply("update_network_rule", "networks", g, e,
               update_network_rule(g, acct, e))

DeleteNetworkRule ==
    \E g \in [name : {RuleName}, db : {RuleDb}, schema : {RuleSchema}],
       e \in Env({"run"}) :
         Apply("delete_network_rule", "networks", g, e,
               delete_network_rule(g, acct, e))

DeleteNetworkPolicy ==
    \E g \in [policy_name : PolicyNames], e \in Env({"run"}) :
         Apply("delete_network_policy", "networks", g, e,
               delete_network_policy(g, acct, e))

PatCreateNetworkRule ==
    \E g \in RuleArgs({"", "ACCOUNTADMIN"}, {"INGRESS", "EGRESS"},
                       {"IPV4", "HOST_PORT"}), e \in Env({"replace"}) :
         Apply("create_network_rule", "pat", g, e, pat_create_network_rule(g, acct, e))

PatCreateNetworkPolicy ==
    \E g \in PolicyArgs({"", "ACCOUNTADMIN"}), e \in Env({"run"}) :
         Apply("create_network_policy", "pat", g, e,
               pat_create_network_policy(g, acct, e))

PatDeleteNetworkRule ==
    \E g \in [name : {RuleName}, db : {RuleDb}, schema : {RuleSchema},
              admin_role : {"", "ACCOUNTADMIN"}],
       e \in Env({"run"}) :
         Apply("delete_network_rule", "pat", g, e, pat_delete_network_rule(g, acct, e))

PatDeleteNetworkPolicy ==
    \E g \in [policy_name : PolicyNames, admin_role : {"", "ACCOUNTADMIN"}],
       e \in Env({"run"}) :
         Apply("delete_network_policy", "pat", g, e,
               pat_delete_network_policy(g, acct, e))

CreateExternalVolume ==
    \E g \in [volume_name : {VolumeName}, role_arn : {"arn:aws:iam::acct:role/app"},
              allow_writes : BOOLEAN, force : BOOLEAN],
       e \in Env({"run"}) :
         Apply("create_external_volume", "extvolume", g, e,
               create_external_volume(g, acct, e))

DropExternalVolume ==
    \E g \in [volume_name : {VolumeName}], e \in Env({"run"}) :
         Apply("drop_external_volume", "extvolume", g, e,
               drop_external_volume(g, acct, e))

DeleteIamRole ==
    \E g \in [role_name : {"role"}],
       e \in Env({"iam:DetachRolePolicy", "iam:DeleteRole"}) :
         Apply("delete_iam_role", "extvolume", g, e, delete_iam_role(g, acct, e))

DeleteIamPolicy ==
    \E g \in [policy_arn : {"policy"}], e \in Env({"iam:DeletePolicy"}) :
         Apply("delete_iam_policy", "extvolume", g, e, delete_iam_policy(g, acct, e))

DeleteS3Bucket ==
    \E g \in [bucket_name : {"bucket"}, force : BOOLEAN],
       e \in Env({"s3:ListObjectVersions", "s3:DeleteObjects",
                           "s3:DeleteBucket"}) :
         Apply("delete_s3_bucket", "extvolume", g, e, delete_s3_bucket(g, acct, e))

DeleteCommand ==
    \E g \in [volume_name : {VolumeName}, delete_bucket : BOOLEAN, force : BOOLEAN],
       e \in Env({"sts:GetCallerIdentity", "run", "iam:DetachRolePolicy",
                           "iam:DeleteRole", "iam:DeletePolicy",
                           "s3:ListObjectVersions", "s3:DeleteObjects",
                           "s3:DeleteBucket"}) :
         Apply("delete", "extvolume", g, e, delete(g, acct, e))

\* ---- no operation has been called

RecIdle ==
    /\ acct = EmptyAcct /\ acct_before = EmptyAcct
    /\ op = NoOp /\ again = [is |-> FALSE, ok |-> FALSE, ret |-> ""]

----------------------------------------------------------------------------
\* Part 3: the commands as they are run from the shell
\*   pat.py create / rotate, extvolume.py create, network.py rule create /
\*   rule update / policy create / policy alter:
\*   what they print, which processes and requests they start, and where
\*   the new token ends up

\* values the environment variable SA_PAT can hold
Tokens == {"tok_a", "tok_b"}
SvcUser == "svc"
SvcRole == "svc_role"
\* f"{user}_pat".upper()
DefaultPatName == "SVC_PAT"

\* one click.echo (or a run of them); shows: the names and secrets in its text
Line(shows) == [kind |-> "line", shows |-> shows]
\* click.echo(json.dumps(result))
Json(shows) == [kind |-> "json", shows |-> shows]

\* one external call.  kind: "snow" (a spawned snow CLI process), "http",
\* "aws"; flags: the connection flags on its command line; names: what its
\* command line carries besides them; password: SNOWFLAKE_PASSWORD in its
\* environment; writes: it can change external state
Ext(kind, what, flags, names, password, writes) ==
    [kind |-> kind, what |-> what, flags |-> flags, names |-> names,
     password |-> password, writes |-> writes, ok |-> TRUE]

\* the calls of a step of which the last one fails (a non-zero exit, an
\* exception of requests or boto3)
failing(ext) ==
    [i \in DOMAIN ext |-> IF i = Len(ext) THEN [ext[i] EXCEPT !.ok = FALSE] ELSE ext[i]]


RECURSIVE Repeat(_, _)
Repeat(s, n) == IF n = 0 THEN <<>> ELSE s \o Repeat(s, n - 1)

\* SnowCLIOptions.get_flags (force_user_connection is never set by pat.py)
get_flags(environ, debug) ==
    LET conn == IF environ.CONN # "" THEN <<"-c", environ.CONN>> ELSE <<>>
        flags ==
          IF environ.SA_PAT # ""
          THEN IF environ.SA_USER # "" /\ environ.SNOWFLAKE_ACCOUNT # ""
               THEN <<"--temporary-connection", "--account",
                      environ.SNOWFLAKE_ACCOUNT, "--user", environ.SA_USER,
                      "--authenticator", "PROGRAMMATIC_ACCESS_TOKEN">>
                    \o (IF environ.SA_ROLE # "" THEN <<"--role", environ.SA_ROLE>>
                        ELSE <<>>)
               ELSE conn
          ELSE conn
    IN  flags \o (IF debug THEN <<"--debug">> ELSE <<>>)


\* SnowCLIOptions.get_env: SNOWFLAKE_PASSWORD of the child process
get_env(environ) ==
    LET uses_sa_credentials ==
            environ.SA_PAT # "" /\ environ.SA_USER # "" /\ environ.SNOWFLAKE_ACCOUNT # ""
    IN  IF environ.SA_PAT # "" /\ uses_sa_credentials THEN environ.SA_PAT
        ELSE ""

\* run_snow_sql(query): snow sql <flags> --query <query> --format json; sql
\* names the statement
snow_query(a, sql, names) ==
    Ext("snow", sql, get_flags(a.environ, a.debug), names,
        get_env(a.environ), TRUE)

\* run_snow_sql_stdin(sql): snow sql <flags> --stdin, the SQL (named by sql)
\* on stdin
snow_stdin(a, sql) ==
    Ext("snow", sql, get_flags(a.environ, a.debug), {},
        get_env(a.environ), TRUE)

\* [DEBUG] Running: ' '.join(cmd), and for --stdin the SQL text
debug_echo(a, e, sql_names) ==
    IF a.debug THEN <<Line({e.flags[i] : i \in DOMAIN e.flags} \cup e.names
                         \cup sql_names)>> ELSE <<>>

\* requests.get of get_local_ip
http_local_ip == Ext("http", "api.ipify.org", <<>>, {}, "", FALSE)

\* collect_ipv4_cidrs: the requests it makes (the GitHub and Google presets
\* are left off)
collect_ipv4_cidrs(with_local) == IF with_local THEN <<http_local_ip>> ELSE <<>>

\* sts_client.get_caller_identity()
sts_get_caller_identity == Ext("aws", "sts:GetCallerIdentity", <<>>, {}, "", FALSE)

\* pat_name as the command resolves it.  `rotate` declares --pat-name with
\* envvar="SA_PAT"; `create` with envvar="PAT_NAME" (unset here)
pat_name(a) ==
    IF a.pat_name # "" THEN a.pat_name
    ELSE IF a.cmd = "pat rotate" /\ a.environ.SA_PAT # "" THEN a.environ.SA_PAT
    ELSE DefaultPatName

\* get_existing_pat: the name comparison
existing_pat(a) == a.pat_exists /\ pat_name(a) = DefaultPatName

\* ---- one step of a command

Step(next, out, ext) ==
    /\ c_pc' = next
    /\ c_out' = c_out \o out
    /\ c_ext' = c_ext \o ext
    /\ UNCHANGED <<c_args, c_exit, create_vars, wait_vars, rec_vars, lib_vars>>

\* ---- pat.py create

\* create_command up to the end of the dry-run branch
PatCreateStart ==
    /\ c_args.cmd = "pat create" /\ c_pc = "start"
    /\ UNCHANGED <<c_token, c_env_file>>
    /\ LET a == c_args
           http == collect_ipv4_cidrs(a.allow_local)
           header == IF a.output = "text"
                     THEN <<Line({SvcUser, SvcRole, pat_name(a)})>> ELSE <<>>
       IN  \E http_ok \in BOOLEAN :
             IF http # <<>> /\ ~http_ok THEN Step("failed", <<>>, failing(http))
             ELSE IF ~a.allow_local /\ ~a.extra_cidrs THEN Step("failed", <<>>, http)
             ELSE IF a.output = "json" /\ a.dry_run
                  THEN Step("done", <<Json({SvcUser, pat_name(a)})>>, http)
             ELSE IF a.dry_run
                  THEN Step("done", header \o <<Line({SvcUser, SvcRole, pat_name(a)})>>,
                            http)
             ELSE Step("setup", header, http)

\* variant: the PAT is issued before the authentication policy is set
setup_statements_no_auth ==
    <<"CREATE USER", "CREATE NETWORK RULE", "CREATE NETWORK POLICY",
      "ALTER USER SET NETWORK_POLICY">>

\* the statements create_command runs on stdin between the dry-run branch
\* and create_or_rotate_pat: setup_service_user, setup_network_for_user
\* (rule, then policy), assign_network_policy_to_user, setup_auth_policy
setup_statements ==
    <<"CREATE USER", "CREATE NETWORK RULE", "CREATE NETWORK POLICY",
      "ALTER USER SET NETWORK_POLICY", "CREATE AUTHENTICATION POLICY">>

\* the setup steps in order; fail_at: the one that raises (0: none), either
\* in its statement or, for the two steps that call get_admin_role, before
\* the statement is sent
PatCreateSetup ==
    /\ c_args.cmd = "pat create" /\ c_pc = "setup"
    /\ UNCHANGED <<c_token, c_env_file>>
    /\ LET a == c_args
           e(i) == snow_stdin(a, setup_statements[i])
           one == <<Line({SvcUser})>> \o debug_echo(a, e(1), {SvcUser, SvcRole})
           last == Len(setup_statements)
       IN  \E fail_at \in 0..last, no_admin_role \in BOOLEAN :
             LET n == IF fail_at = 0 THEN last ELSE fail_at
                 unsent == no_admin_role /\ fail_at # 0
                           /\ setup_statements[fail_at] \in
                                {"CREATE NETWORK RULE", "ALTER USER SET NETWORK_POLICY"}
                 sent == [i \in 1..(IF unsent THEN n - 1 ELSE n) |-> e(i)]
             IN  /\ no_admin_role => unsent
                 /\ IF fail_at = 0
                    THEN Step("pat", Repeat(one, n) \o <<Line({SvcUser})>>, sent)
                    ELSE Step("failed", Repeat(one, Len(sent)),
                              IF unsent THEN sent ELSE failing(sent))

\* ---- pat.py rotate

\* rotate_command up to get_existing_pat
PatRotateStart ==
    /\ c_args.cmd = "pat rotate" /\ c_pc = "start"
    /\ UNCHANGED <<c_token, c_env_file>>
    /\ LET a == c_args
           e == snow_query(a, "SHOW USER PATS", {SvcUser})
           header == <<Line({SvcUser, SvcRole, pat_name(a)})>>
       IN  \E ok \in BOOLEAN :
             IF ok /\ existing_pat(a)
             THEN Step("pat", header \o debug_echo(a, e, {}), <<e>>)
             ELSE Step("failed", header \o debug_echo(a, e, {}),
                       IF ok THEN <<e>> ELSE failing(<<e>>))

\* ---- steps pat.py create and rotate share

\* create_or_rotate_pat
PatToken ==
    /\ c_args.cmd \in {"pat create", "pat rotate"} /\ c_pc = "pat"
    /\ UNCHANGED c_env_file
    /\ LET a == c_args
           rotate == a.cmd = "pat rotate" \/ a.rotate
           look == snow_query(a, "SHOW USER PATS", {SvcUser})
           remove == snow_query(a, "REMOVE PAT", {SvcUser, pat_name(a)})
           query == snow_query(a, IF existing_pat(a) /\ rotate THEN "ROTATE PAT"
                                  ELSE "ADD PAT",
                               {SvcUser, pat_name(a), SvcRole})
           dbg(e) == debug_echo(a, e, {})
       IN  \E outcome \in {"lookup_failed", "remove_failed", "query_failed",
                           "no_token_secret", "token"} :
             LET removing == existing_pat(a) /\ ~rotate
                 pre_out == dbg(look)
                            \o (IF removing THEN <<Line({pat_name(a)})>> \o dbg(remove)
                                ELSE <<>>)
                 pre_ext == <<look>> \o (IF removing THEN <<remove>> ELSE <<>>)
             IN  CASE outcome = "lookup_failed" ->
                        /\ Step("failed", dbg(look), failing(<<look>>))
                        /\ UNCHANGED c_token
                   [] outcome = "remove_failed" ->
                        /\ removing
                        /\ Step("failed", pre_out, failing(pre_ext))
                        /\ UNCHANGED c_token
                   [] outcome \in {"query_failed", "no_token_secret"} ->
                        /\ Step("failed",
                                pre_out \o <<Line({SvcUser})>> \o dbg(query),
                                IF outcome = "query_failed"
                                THEN failing(Append(pre_ext, query))
                                ELSE Append(pre_ext, query))
                        /\ UNCHANGED c_token
                   [] outcome = "token" ->
                        /\ Step("env",
                                pre_out \o <<Line({SvcUser})>> \o dbg(query)
                                  \o <<Line({})>>,
                                Append(pre_ext, query))
                        /\ c_token' = "tok_new"

\* update_env: the file afterwards
update_env(file, password) ==
    IF file.exists THEN [file EXCEPT !.password = password] ELSE file

\* if output == "text": update_env(...)
PatUpdateEnv ==
    /\ c_args.cmd \in {"pat create", "pat rotate"} /\ c_pc = "env"
    /\ UNCHANGED c_token
    /\ IF c_args.output = "text"
       THEN /\ c_env_file' = update_env(c_env_file, c_token)
            /\ Step("verify", <<Line({})>>, <<>>)
       ELSE /\ UNCHANGED c_env_file
            /\ Step("verify", <<>>, <<>>)


\* verify_connection: snow connection test, then snow sql -x with the new
\* token as SNOWFLAKE_PASSWORD
PatVerify ==
    /\ c_args.cmd \in {"pat create", "pat rotate"} /\ c_pc = "verify"
    /\ UNCHANGED <<c_token, c_env_file>>
    /\ LET a == c_args
           test == Ext("snow", "connection test", <<>>, {}, "", FALSE)
           sql == Ext("snow", "sql -q", get_flags(a.environ, a.debug),
                      {SvcUser, SvcRole}, c_token, FALSE)
       IN  IF a.skip_verify \/ (a.cmd = "pat create" /\ a.output # "text")
           THEN Step("result", <<>>, <<>>)
           ELSE \E outcome \in {"no_account", "refused", "verified"} :
                  CASE outcome = "no_account" ->
                         Step("failed", <<Line({})>>, failing(<<test>>))
                    [] outcome = "refused" ->
                         Step("failed", <<Line({})>> \o debug_echo(a, sql, {}),
                              failing(<<test, sql>>))
                    [] outcome = "verified" ->
                         Step("result",
                              <<Line({})>> \o debug_echo(a, sql, {}) \o <<Line({})>>,
                              <<test, sql>>)

\* the result document or the closing banner
PatResult ==
    /\ c_args.cmd \in {"pat create", "pat rotate"} /\ c_pc = "result"
    /\ UNCHANGED <<c_token, c_env_file>>
    /\ IF c_args.output = "json"
       THEN Step("done", <<Json({SvcUser, pat_name(c_args), c_token})>>, <<>>)
       ELSE Step("done", <<Line({})>>, <<>>)

\* ---- extvolume.py create: what it prints and calls

\* workflow_calls: the steps of the try block (Part 1) as calls; every step
\* echoes its banner whatever the output format is; fail_at: the step that
\* raises


ExtvolumeCreate ==
    /\ c_args.cmd = "extvolume create" /\ c_pc = "start"
    /\ UNCHANGED <<c_token, c_env_file>>
    /\ LET a == c_args
           header == IF a.output = "text" THEN <<Line({})>> ELSE <<>>
           sts == sts_get_caller_identity
           rollback == Ext("aws", "rollback", <<>>, {}, "", TRUE)
           workflow_calls(n) ==
               [i \in 1..n |-> Ext(IF i \in {4, 5, 7} THEN "snow" ELSE "aws",
                                   "step", <<>>, {}, "", i \notin {5, 7})]
       IN  IF a.output = "json" /\ a.dry_run
           THEN Step("done", <<Json({})>>, <<>>)
           ELSE IF a.dry_run
           THEN \E sts_ok \in BOOLEAN :
                  Step("done",
                       header \o (IF sts_ok THEN <<>> ELSE <<Line({})>>)
                         \o <<Line({})>>,
                       IF sts_ok THEN <<sts>> ELSE failing(<<sts>>))
           ELSE \E sts_ok \in BOOLEAN, fail_at \in 0..7 :
                  IF ~sts_ok THEN Step("failed", header, failing(<<sts>>))
                  ELSE LET n == IF fail_at = 0 THEN 7 ELSE fail_at
                           acct_line == IF a.output = "text" THEN <<Line({})>>
                                        ELSE <<>>
                           banners == Repeat(<<Line({})>>, n)
                       IN  IF fail_at # 0
                           THEN Step("failed",
                                     header \o acct_line \o banners \o <<Line({})>>,
                                     failing(<<sts>> \o workflow_calls(n))
                                       \o <<rollback>>)
                           ELSE Step("done",
                                     header \o acct_line \o banners
                                       \o (IF a.output = "json" THEN <<Json({})>>
                                           ELSE <<Line({})>>),
                                     <<sts>> \o workflow_calls(n))

\* ---- snow-utils-networks network.py: the CLI handlers

\* the invocations of a reconcile operation as spawned processes
spawned(a, r) == [i \in DOMAIN r.stmts |-> snow_stdin(a, "statement")]


CliPolicyArgs(a) ==
    [policy_name |-> "APP_NETWORK_POLICY", rule_refs |-> {TheRuleFqn},
     dry_run |-> a.dry_run, force |-> FALSE, admin_role |-> "accountadmin"]

\* rule_create: presets, the rule, then the policy when --policy is given
RuleCreate ==
    /\ c_args.cmd = "rule create" /\ c_pc = "start"
    /\ UNCHANGED <<c_token, c_env_file>>
    /\ LET a == c_args
           http == collect_ipv4_cidrs(a.allow_local)
           g == [name |-> RuleName, db |-> RuleDb, schema |-> RuleSchema,
                 values |-> "cidr_a", mode |-> "INGRESS", type |-> "IPV4",
                 dry_run |-> a.dry_run, force |-> FALSE,
                 admin_role |-> "accountadmin"]
           r == create_network_rule(g, EmptyAcct, [fault |-> "none"])
           p == IF a.policy = "alter"
                THEN alter_network_policy(CliPolicyArgs(a), r.acct, [fault |-> "none"])
                ELSE create_network_policy(CliPolicyArgs(a), r.acct, [fault |-> "none"])
           with_policy == a.policy # "none"
           sql_line == IF a.dry_run THEN <<Line({TheRuleFqn})>> ELSE <<>>
           done_line == IF a.dry_run THEN <<>> ELSE <<Line({TheRuleFqn})>>
       IN  \E http_ok \in BOOLEAN, confirmed \in BOOLEAN, run_ok \in BOOLEAN :
             IF http # <<>> /\ ~http_ok THEN Step("failed", <<>>, failing(http))
             ELSE IF ~a.allow_local /\ ~a.extra_cidrs THEN Step("failed", <<>>, http)
             ELSE IF ~a.dry_run /\ a.output = "text" /\ ~confirmed
                  THEN Step("done", <<Line({}), Line({})>>, http)
             ELSE IF ~run_ok /\ r.stmts # <<>>
                  THEN Step("failed", <<Line({})>>, http \o failing(spawned(a, r)))
             ELSE Step("done",
                       <<Line({})>> \o sql_line \o done_line
                         \o (IF with_policy
                             THEN <<Line({})>> \o sql_line \o done_line ELSE <<>>),
                       http \o spawned(a, r)
                         \o (IF with_policy THEN spawned(a, p) ELSE <<>>))

\* rule_update_cmd
RuleUpdate ==
    /\ c_args.cmd = "rule update" /\ c_pc = "start"
    /\ UNCHANGED <<c_token, c_env_file>>
    /\ LET a == c_args
           http == collect_ipv4_cidrs(a.allow_local)
           g == [name |-> RuleName, db |-> RuleDb, schema |-> RuleSchema,
                 values |-> "cidr_a", dry_run |-> a.dry_run]
           r == update_network_rule(g, [EmptyAcct EXCEPT !.rule =
                                          Rule("cidr_b", "INGRESS", "IPV4")], [fault |-> "none"])
       IN  \E http_ok \in BOOLEAN, run_ok \in BOOLEAN :
             IF http # <<>> /\ ~http_ok THEN Step("failed", <<>>, failing(http))
             ELSE IF ~a.allow_local /\ ~a.extra_cidrs THEN Step("failed", <<>>, http)
             ELSE IF ~run_ok /\ r.stmts # <<>>
                  THEN Step("failed", <<Line({})>>, http \o failing(spawned(a, r)))
             ELSE Step("done", <<Line({TheRuleFqn}), Line({TheRuleFqn})>>,
                       http \o spawned(a, r))

\* policy_create_cmd and policy_alter_cmd
PolicyCommand ==
    /\ c_args.cmd \in {"policy create", "policy alter"} /\ c_pc = "start"
    /\ UNCHANGED <<c_token, c_env_file>>
    /\ LET a == c_args
           p == IF a.cmd = "policy alter"
                THEN alter_network_policy(CliPolicyArgs(a), EmptyAcct, [fault |-> "none"])
                ELSE create_network_policy(CliPolicyArgs(a), EmptyAcct, [fault |-> "none"])
       IN  \E confirmed \in BOOLEAN, run_ok \in BOOLEAN :
             IF ~a.dry_run /\ a.output = "text" /\ ~confirmed
             THEN Step("done", <<Line({}), Line({})>>, <<>>)
             ELSE IF ~run_ok /\ p.stmts # <<>>
                  THEN Step("failed", <<Line({})>>, failing(spawned(a, p)))
             ELSE Step("done", <<Line({}), Line({})>>, spawned(a, p))

\* ---- the command lines the model runs

\* ---- snow-utils-pat check_setup.py

\* variant: a SHOW statement that failed counts as found
check_exists_lax(reply) == reply # "empty"

\* check_database_exists, check_role_exists: run_sql returned rows (it
\* returns None when snow exits non-zero)
check_exists(reply) == reply = "rows"

\* check, from its first line to sys.exit
CheckSetup ==
    /\ c_args.cmd = "check_setup" /\ c_pc = "start"
    /\ LET k == c_args.check
           text == c_args.output = "text"
           run_sql(sql, reply) ==
               LET e == Ext("snow", sql, <<>>, {}, "", FALSE)
               IN  IF reply = "failed" THEN failing(<<e>>) ELSE <<e>>
           db_exists == check_exists(k.db)
           role_exists == check_exists(k.role)
           ready == db_exists /\ role_exists
           probes == run_sql("SHOW DATABASES", k.db) \o run_sql("SHOW ROLES", k.role)
                     \o (IF role_exists
                         THEN run_sql("SELECT CURRENT_AVAILABLE_ROLES()", "rows")
                         ELSE <<>>)
           asked == text /\ ~ready /\ k.setup /\ k.user
           runs == asked /\ IF k.tty THEN k.answer ELSE k.confirmed
           setup_sql == Ext("snow", "sql -f snow-utils-setup.sql", <<>>, {}, "", TRUE)
           run_setup == IF k.script = "missing" THEN <<>>
                        ELSE IF k.script = "zero" THEN <<setup_sql>>
                        ELSE failing(<<setup_sql>>)
           code == IF ~text THEN (IF ready THEN 0 ELSE 1)
                   ELSE IF ready THEN 0
                   ELSE IF ~k.setup THEN 1
                   ELSE IF ~k.user THEN 2
                   ELSE IF runs THEN (IF k.script = "zero" THEN 0 ELSE 1)
                   ELSE IF k.tty THEN 1
                   ELSE 3
       IN  /\ c_exit' = code
           /\ c_pc' = IF code = 0 THEN "done" ELSE "failed"
           /\ c_out' = IF text THEN Repeat(<<Line({})>>, IF runs THEN 4 ELSE 3)
                       ELSE <<Json({})>>
           /\ c_ext' = probes \o (IF runs THEN run_setup ELSE <<>>)
    /\ UNCHANGED <<c_args, c_token, c_env_file, create_vars, wait_vars, rec_vars,
                   lib_vars>>

NoCmd == [cmd |-> "none", output |-> "text", dry_run |-> FALSE,
          skip_verify |-> FALSE, rotate |-> TRUE, debug |-> FALSE,
          allow_local |-> TRUE, extra_cidrs |-> FALSE, pat_name |-> "",
          pat_exists |-> FALSE, policy |-> "none",
          check |-> [setup |-> FALSE, confirmed |-> FALSE, user |-> FALSE,
                     tty |-> FALSE, db |-> "rows", role |-> "rows",
                     answer |-> TRUE, script |-> "zero"],
          environ |-> [SA_PAT |-> "", SA_USER |-> "", SNOWFLAKE_ACCOUNT |-> "",
                       SA_ROLE |-> "", CONN |-> ""]]


CommandLines ==
  LET Environs ==
        [SA_PAT : {""} \cup Tokens, SA_USER : {"", SvcUser},
         SNOWFLAKE_ACCOUNT : {"", "acct"}, SA_ROLE : {SvcRole}, CONN : {"default"}]
  IN
    { [NoCmd EXCEPT !.cmd = "pat create", !.output = o, !.dry_run = d,
                    !.skip_verify = s, !.rotate = r, !.debug = g,
                    !.allow_local = l, !.extra_cidrs = c, !.pat_exists = x,
                    !.environ = e] :
        o \in {"text", "json"}, d \in BOOLEAN, s \in BOOLEAN, r \in BOOLEAN,
        g \in BOOLEAN, l \in BOOLEAN, c \in BOOLEAN, x \in BOOLEAN,
        e \in Environs }
    \cup
    { [NoCmd EXCEPT !.cmd = "pat rotate", !.output = o, !.skip_verify = s,
                    !.debug = g, !.pat_name = n, !.pat_exists = x, !.environ = e] :
        o \in {"text", "json"}, s \in BOOLEAN, g \in BOOLEAN, n \in {"", DefaultPatName},
        x \in BOOLEAN, e \in Environs }
    \cup
    { [NoCmd EXCEPT !.cmd = "extvolume create", !.output = o, !.dry_run = d] :
        o \in {"text", "json"}, d \in BOOLEAN }
    \cup
    { [NoCmd EXCEPT !.cmd = c, !.output = o, !.dry_run = d, !.allow_local = l,
                    !.extra_cidrs = x, !.policy = p] :
        c \in {"rule create"}, o \in {"text", "json"}, d \in BOOLEAN, l \in BOOLEAN,
        x \in BOOLEAN, p \in {"none", "create", "alter"} }
    \cup
    { [NoCmd EXCEPT !.cmd = "rule update", !.dry_run = d, !.allow_local = l,
                    !.extra_cidrs = x] :
        d \in BOOLEAN, l \in BOOLEAN, x \in BOOLEAN }
    \cup
    { [NoCmd EXCEPT !.cmd = c, !.output = o, !.dry_run = d] :
        c \in {"policy create", "policy alter"}, o \in {"text", "json"}, d \in BOOLEAN }
    \cup
    \* check_setup.py: --setup, --confirmed, whether a user is given or in
    \* SNOWFLAKE_USER, whether stdin and stdout are terminals; what the two
    \* SHOW statements reply, the answer to the prompt, and the setup
    \* script: not there, or the exit status of snow sql -f
    { [NoCmd EXCEPT !.cmd = "check_setup", !.output = o, !.check = k] :
        o \in {"text", "json"},
        k \in [setup : BOOLEAN, confirmed : BOOLEAN, user : BOOLEAN, tty : BOOLEAN,
               db : {"rows", "empty", "failed"}, role : {"rows", "empty", "failed"},
               answer : BOOLEAN, script : {"missing", "zero", "nonzero"}] }


CmdIdle ==
    /\ c_args = NoCmd /\ c_pc = "off"
    /\ c_out = <<>> /\ c_ext = <<>>
    /\ c_token = "" /\ c_env_file = [exists |-> FALSE, password |-> ""]
    /\ c_exit = -1

----------------------------------------------------------------------------
\* Part 4: library functions called on their own in one process
\*   snow_common.py: the masking functions
\*   network_presets.py: the preset fetchers
\* A str is kept as the sequence of its characters.

\* str.isdigit()
isdigit(s) ==
    s # <<>> /\ \A i \in DOMAIN s : s[i] \in {"0", "1", "2", "3", "4", "5", "6", "7", "8", "9"}

\* sub in s
contains(s, sub) ==
    \E i \in 1..(Len(s) + 1) :
        i + Len(sub) - 1 <= Len(s) /\ SubSeq(s, i, i + Len(sub) - 1) = sub

\* s.split(sep) for a separator of one character
RECURSIVE split(_, _)
split(s, sep) ==
    IF \A i \in DOMAIN s : s[i] # sep THEN <<s>>
    ELSE LET k == CHOOSE i \in DOMAIN s : s[i] = sep /\ \A j \in 1..(i - 1) : s[j] # sep
         IN  <<SubSeq(s, 1, k - 1)>> \o split(SubSeq(s, k + 1, Len(s)), sep)

\* re.match(r"^\d+\.\d+\.\d+\.\d+(/\d+)?$", value)
ip_pattern(value) ==
    LET halves == split(value, "/")
        octets == split(halves[1], ".")
    IN  /\ Len(halves) \in {1, 2}
        /\ Len(halves) = 2 => isdigit(halves[2])
        /\ Len(octets) = 4
        /\ \A i \in 1..4 : isdigit(octets[i])

\* mask_aws_account_id
mask_aws_account_id(value) ==
    IF Len(value) = 12 /\ isdigit(value)
    THEN SubSeq(value, 1, 4) \o <<"*", "*", "*", "*">> \o SubSeq(value, 9, 12)
    ELSE value

\* mask_ip_address
mask_ip_address(value) ==
    LET \* s.replace("/32", ""): the occurrences from the left
        RECURSIVE replace(_)
        replace(s) ==
            IF s = <<>> THEN <<>>
            ELSE IF Len(s) >= 3 /\ SubSeq(s, 1, 3) = <<"/", "3", "2">>
                 THEN replace(SubSeq(s, 4, Len(s)))
            ELSE <<Head(s)>> \o replace(Tail(s))
        parts == split(replace(value), ".")
    IN  IF Len(parts) = 4
        THEN parts[1] \o <<".">> \o parts[2] \o <<".", "*", "*", "*", ".", "*", "*", "*">>
               \o (IF contains(value, <<"/", "3", "2">>) THEN <<"/", "3", "2">> ELSE <<>>)
        ELSE value

\* variant: three asterisks whatever the length
mask_external_id_three(value) ==
    IF Len(value) <= 6 THEN [i \in 1..Len(value) |-> "*"]
    ELSE SubSeq(value, 1, 3) \o <<"*", "*", "*">> \o SubSeq(value, Len(value) - 2, Len(value))

\* mask_external_id
mask_external_id(value) ==
    IF Len(value) <= 6 THEN [i \in 1..Len(value) |-> "*"]
    ELSE SubSeq(value, 1, 3) \o [i \in 1..(Len(value) - 6) |-> "*"]
           \o SubSeq(value, Len(value) - 2, Len(value))

\* mask_arn.  The pattern (arn:aws:[^:]+:[^:]*:)(\d{12})(:.+) is matched from
\* the start of the value; its fields are the parts between the colons
mask_arn(value) ==
    LET parts == split(value, ":")
        \* ":".join(parts)
        RECURSIVE join(_)
        join(ps) == IF Len(ps) = 0 THEN <<>>
                    ELSE IF Len(ps) = 1 THEN ps[1]
                    ELSE ps[1] \o <<":">> \o join(Tail(ps))
        match == /\ Len(parts) >= 6
                 /\ parts[1] = <<"a", "r", "n">> /\ parts[2] = <<"a", "w", "s">>
                 /\ parts[3] # <<>>
                 /\ Len(parts[5]) = 12 /\ isdigit(parts[5])
                 /\ join(SubSeq(parts, 6, Len(parts))) # <<>>
    IN  IF match
        THEN join([parts EXCEPT ![5] = mask_aws_account_id(parts[5])])
        ELSE value

\* mask_sensitive_string; mask_sensitive is _snow_cli_options.mask_sensitive
mask_sensitive_string(value, mask_type, mask_sensitive) ==
    LET is_account_id == mask_type = "aws_account_id"
                         \/ (mask_type = "auto" /\ Len(value) = 12 /\ isdigit(value))
        is_ip == mask_type = "ip" \/ (mask_type = "auto" /\ ip_pattern(value))
        is_arn == Len(value) >= 8 /\ SubSeq(value, 1, 8) = <<"a", "r", "n", ":", "a", "w", "s",
                ":">>
    IN  IF ~mask_sensitive THEN value
        ELSE IF is_account_id THEN mask_aws_account_id(value)
        ELSE IF is_ip THEN mask_ip_address(value)
        ELSE IF mask_type = "arn" \/ (mask_type = "auto" /\ is_arn) THEN mask_arn(value)
        ELSE IF mask_type = "external_id" THEN mask_external_id(value)
        ELSE value

\* JSON data: a node is a str (t = "str", its characters in s), a leaf that
\* is no str ("num", its digits in s), a dict ("dict", items [k, v] in
\* insertion order) or a list ("list", the k of its items unused)
Node(t, s, items) == [t |-> t, s |-> s, items |-> items]

\* mask_json_sensitive with the default sensitive_keys
mask_json_sensitive(data, mask_sensitive) ==
    LET \* key.lower(), sk.lower()
        lower(s) ==
            LET up == <<"A", "B", "C", "D", "E", "F", "G", "H", "I", "J", "K", "L", "M", "N",
                    "O", "P", "Q", "R", "S", "T", "U", "V", "W", "X", "Y", "Z">>
                lo == <<"a", "b", "c", "d", "e", "f", "g", "h", "i", "j", "k", "l", "m", "n",
                        "o", "p", "q", "r", "s", "t", "u", "v", "w", "x", "y", "z">>
            IN  [i \in DOMAIN s |->
                   IF \E k \in DOMAIN up : up[k] = s[i]
                   THEN lo[CHOOSE k \in DOMAIN up : up[k] = s[i]] ELSE s[i]]
        should_mask_key(key) ==
            \E sk \in {<<"A", "W", "S">>, <<"a", "r", "n">>, <<"a", "c", "c", "o", "u", "n",
                    "t">>, <<"e", "x", "t", "e", "r", "n", "a", "l">>, <<"i", "p">>, <<"a",
                    "d", "d", "r", "e", "s", "s">>} :
                contains(lower(key), lower(sk))
        mask_value(key, value) ==
            IF value.t # "str" THEN value
            ELSE IF contains(value.s, <<"a", "r", "n", ":", "a", "w", "s", ":">>)
                 THEN Node("str", mask_arn(value.s), <<>>)
            ELSE IF Len(value.s) = 12 /\ isdigit(value.s)
                 THEN Node("str", mask_aws_account_id(value.s), <<>>)
            ELSE IF ip_pattern(value.s)
                 THEN Node("str", mask_ip_address(value.s), <<>>)
            ELSE IF should_mask_key(key) /\ Len(value.s) > 6
                 THEN Node("str", mask_external_id(value.s), <<>>)
            ELSE value
        RECURSIVE recurse(_, _)
        recurse(obj, parent_key) ==
            IF obj.t = "dict"
            THEN [obj EXCEPT !.items = [i \in DOMAIN obj.items |->
                     [k |-> obj.items[i].k,
                      v |-> recurse(obj.items[i].v, obj.items[i].k)]]]
            ELSE IF obj.t = "list"
            THEN [obj EXCEPT !.items = [i \in DOMAIN obj.items |->
                     [k |-> <<>>, v |-> recurse(obj.items[i].v, parent_key)]]]
            ELSE mask_value(parent_key, obj)
    IN  IF ~mask_sensitive THEN data ELSE recurse(data, <<>>)

\* ---- the masking functions called once

MaxIdLen == 8

NoMaskCall == [fn |-> "none", value |-> <<>>, mask_type |-> "auto",
               data |-> Node("num", <<>>, <<>>), mask_sensitive |-> FALSE,
               done |-> FALSE, ret |-> <<>>, ret_data |-> Node("num", <<>>, <<>>)]

\* the calls of mask_sensitive_string and mask_json_sensitive the model makes
MaskCalls ==
    LET Octets == {<<"1">>, <<"1", "0">>}
        Suffixes == {<<>>, <<"/", "8">>, <<"/", "2", "4">>, <<"/", "3", "2">>}
        IpValues ==
            { a \o <<".">> \o b \o <<".">> \o c \o <<".">> \o d \o sfx :
                a \in Octets, b \in Octets, c \in Octets, d \in Octets, sfx \in Suffixes }
            \cup {<<"1", "9", "2", ".", "1", "6", "8", ".", "1", ".", "1", "0", "0", "/", "3",
                    "2">>}
        ExternalIds ==
            UNION { [1..n -> {"a", "7"}] : n \in 0..MaxIdLen }
            \cup {<<"s", "h", "o", "r", "t">>, <<"a", "b", "c", "1", "2", "3", "x", "y", "z">>}
        AccountId == <<"1", "2", "3", "4", "5", "6", "7", "8", "9", "0", "1", "2">>
        RoleArn == <<"a", "r", "n", ":", "a", "w", "s", ":", "i", "a", "m", ":", ":", "1", "2",
                "3", "4", "5", "6", "7", "8", "9", "0", "1", "2", ":", "r", "o", "l", "e", "/",
                "r">>
        ManagedPolicyArn == <<"a", "r", "n", ":", "a", "w", "s", ":", "i", "a", "m", ":", ":",
                "a", "w", "s", ":", "p", "o", "l", "i", "c", "y", "/", "p">>
        string_calls ==
            (IpValues \X {"ip", "auto"})
            \cup (ExternalIds \X {"external_id"})
            \cup ({AccountId, RoleArn, ManagedPolicyArn, <<"1", ".", "2", ".", "3">>}
                  \X {"auto", "ip", "arn", "aws_account_id", "external_id"})
        Str(s) == Node("str", s, <<>>)
        Dict(k, v) == Node("dict", <<>>, <<[k |-> k, v |-> v]>>)
        List(vs) == Node("list", <<>>, [i \in DOMAIN vs |-> [k |-> <<>>, v |-> vs[i]]])
        keys == {<<"a", "c", "c", "o", "u", "n", "t">>, <<"n", "a", "m", "e">>, <<"d", "e",
                "s", "c", "r", "i", "p", "t", "i", "o", "n">>, <<"R", "o", "l", "e", "_", "A",
                "R", "N">>}
        leaves == {Str(<<"p", "r", "o", "d", "0", "1">>), Str(<<"s", "e", "c", "r", "e", "t",
                "-", "v", "a", "l", "u", "e">>), Str(AccountId), Str(RoleArn),
                   Str(ManagedPolicyArn), Str(<<"1", "0", ".", "1", ".", "1", "0", ".", "1",
                           "/", "2", "4">>),
                   Node("num", AccountId, <<>>)}
        trees == { Dict(k, v) : k \in keys, v \in leaves }
                 \cup { Dict(k, List(<<v, w>>)) : k \in keys, v \in leaves, w \in leaves }
                 \cup { Dict(k, Dict(l, v)) : k \in keys, l \in keys, v \in leaves }
                 \cup { List(<<v>>) : v \in leaves }
    IN  { [NoMaskCall EXCEPT !.fn = "mask_sensitive_string", !.value = c[1],
                             !.mask_type = c[2], !.mask_sensitive = m] :
            c \in string_calls, m \in BOOLEAN }
        \cup
        { [NoMaskCall EXCEPT !.fn = "mask_json_sensitive", !.data = t,
                             !.mask_sensitive = m] : t \in trees, m \in BOOLEAN }

\* mask_sensitive_string(value, mask_type)
MaskSensitiveString ==
    /\ m_call.fn = "mask_sensitive_string" /\ ~m_call.done
    /\ m_call' = [m_call EXCEPT !.done = TRUE,
                    !.ret = mask_sensitive_string(m_call.value, m_call.mask_type,
                                                  m_call.mask_sensitive)]
    /\ UNCHANGED <<p_log, p_cache, create_vars, wait_vars, rec_vars, cmd_vars>>

\* mask_json_sensitive(data)
MaskJsonSensitive ==
    /\ m_call.fn = "mask_json_sensitive" /\ ~m_call.done
    /\ m_call' = [m_call EXCEPT !.done = TRUE,
                    !.ret_data = mask_json_sensitive(m_call.data, m_call.mask_sensitive)]
    /\ UNCHANGED <<p_log, p_cache, create_vars, wait_vars, rec_vars, cmd_vars>>

\* ---- network_presets.py: the preset fetchers in one process

MaxGets == 3

\* one call of get_local_ip, get_github_actions_ips or get_google_ips after
\* the calls of p: nothing when an earlier call of the same collect raised;
\* the cached tuple when the function is decorated with @lru_cache and the
\* cache holds one; else the request, whose result a decorated function
\* caches when raise_for_status does not raise
get_preset(p, preset, http_ok) ==
    LET lru_cache == preset \in {"github", "google"}
    IN  IF p.raised THEN p
        ELSE IF lru_cache /\ p.cache[preset]
        THEN [p EXCEPT !.log = Append(@, [preset |-> preset, http |-> FALSE, ok |-> TRUE])]
        ELSE [log |-> Append(p.log, [preset |-> preset, http |-> TRUE, ok |-> http_ok]),
              cache |-> IF lru_cache /\ http_ok
                        THEN [p.cache EXCEPT ![preset] = TRUE] ELSE p.cache,
              raised |-> ~http_ok]

\* collect_ipv4_cidrs(with_local, with_gh, with_google)
CollectIpv4Cidrs ==
    /\ m_call = NoMaskCall /\ Len(p_log) < MaxGets
    /\ \E with_local \in BOOLEAN, with_gh \in BOOLEAN, with_google \in BOOLEAN,
          local_ok \in BOOLEAN, gh_ok \in BOOLEAN, google_ok \in BOOLEAN :
         LET p0 == [log |-> p_log, cache |-> p_cache, raised |-> FALSE]
             p1 == IF with_local THEN get_preset(p0, "local", local_ok) ELSE p0
             p2 == IF with_gh THEN get_preset(p1, "github", gh_ok) ELSE p1
             p3 == IF with_google THEN get_preset(p2, "google", google_ok) ELSE p2
         IN  /\ p_log' = p3.log
             /\ p_cache' = p3.cache
    /\ UNCHANGED <<m_call, create_vars, wait_vars, rec_vars, cmd_vars>>

LibIdle ==
    /\ m_call = NoMaskCall
    /\ p_log = <<>> /\ p_cache = [github |-> FALSE, google |-> FALSE]


----------------------------------------------------------------------------
\* Specifications

\* The command has not been invoked
CreateIdle ==
    /\ force = FALSE /\ skip_verify = FALSE
    /\ s3_bucket = "absent" /\ iam_policy = "absent" /\ iam_role = "absent"
    /\ role_trust = NoTrust /\ role_attached = FALSE
    /\ sf_volume = NoVolume
    /\ pc = "off"
    /\ created_bucket = FALSE /\ created_policy = FALSE /\ created_role = FALSE
    /\ sf_props = NoProps /\ err = NoErr /\ raised = NoErr
    /\ status = "running"
    /\ calls = <<>>
    /\ pre = [bucket |-> "absent", policy |-> "absent", role |-> "absent",
              volume |-> FALSE]
    /\ made = {}
    /\ role_wait = NoRet /\ trust_wait = NoRet
    /\ verify_result = "none"
    /\ rb_log = <<>>

WaitIdle == w_args = NoArgs /\ w_ret = NoRet

\* `extvolume create` (not dry-run) against any state of the two accounts
Init ==
    /\ force \in BOOLEAN /\ skip_verify \in BOOLEAN
    /\ s3_bucket \in {"absent", "present", "foreign"}
    /\ iam_policy \in {"absent", "present", "denied"}
    /\ iam_role \in {"absent", "present", "denied"}
    /\ LET \* trust documents a role that existed before the run may carry
           PreexistingTrusts ==
               { get_initial_trust_policy("root", OldExternalId),
                 get_snowflake_trust_policy("arn_sf_a", OldExternalId),
                 [principal |-> "someone", external_id |-> "none"] }
       IN  role_trust \in (IF iam_role = "present" THEN PreexistingTrusts ELSE {NoTrust})
    /\ role_attached \in (IF iam_role = "present" /\ iam_policy = "present"
                          THEN BOOLEAN ELSE {FALSE})
    /\ sf_volume \in {NoVolume, [arn |-> "arn_sf_a", external_id |-> OldExternalId]}
    /\ pc = "init"
    /\ created_bucket = FALSE /\ created_policy = FALSE /\ created_role = FALSE
    /\ sf_props = NoProps /\ err = NoErr /\ raised = NoErr
    /\ status = "running"
    /\ calls = <<>>
    /\ pre = [bucket |-> s3_bucket, policy |-> iam_policy, role |-> iam_role,
              volume |-> sf_volume # NoVolume]
    /\ made = {}
    /\ role_wait = NoRet /\ trust_wait = NoRet
    /\ verify_result = "none"
    /\ rb_log = <<>>
    /\ WaitIdle
    /\ RecIdle /\ CmdIdle /\ LibIdle

Next ==
    \/ InitClients
    \/ Step1_CreateBucket
    \/ Step2_CreatePolicy
    \/ Step3_CreateRole
    \/ WaitForIamRole
    \/ Step4_CreateVolume
    \/ Step5_Describe
    \/ Step6_UpdateTrust
    \/ WaitForTrustPolicy
    \/ Step7_Verify
    \/ Finish
    \/ RollbackRole
    \/ RollbackPolicy
    \/ RollbackBucket
    \/ Reraise

Spec == Init /\ [][Next]_vars

\* wait_with_backoff called with any arguments within the bounds
InitWait ==
    /\ CreateIdle
    /\ RecIdle /\ CmdIdle /\ LibIdle
    /\ w_args \in UNION { [check_fn : [1..n -> BOOLEAN], max_attempts : {n},
                           initial_delay : 1..MaxDelay, max_delay : 1..MaxDelay,
                           backoff_factor : 1..MaxDelay] : n \in 0..MaxAttempts }
    /\ w_ret = NoRet


SpecWait == InitWait /\ [][WaitCall]_vars

\* one reconcile operation, called on any account and then called again
InitRec ==
    /\ CreateIdle /\ WaitIdle /\ CmdIdle /\ LibIdle
    /\ LET \* a policy can list only a rule that exists
           NetworkAccts ==
          { a \in [rule : {NoRule} \cup {Rule(v, "INGRESS", "IPV4") : v \in ValueLists},
                   policies : [PolicyNames -> {NoPolicy} \cup
                                 {Policy(rs) : rs \in SUBSET {TheRuleFqn, OtherRuleFqn}}],
                   strict : BOOLEAN,
                   volume : {NoExtVolume}, role : {"absent"}, role_attached : {FALSE},
                   iam_policy : {"absent"}, bucket : {"absent"}] :
              a.rule.exists \/ Referencing(a, TheRuleFqn) = {} }
           \* a policy is attached only to a role that exists
           CloudAccts ==
          { a \in [rule : {NoRule}, policies : {[p \in PolicyNames |-> NoPolicy]},
                   strict : {FALSE},
                   volume : {NoExtVolume, ExtVolume("arn:aws:iam::acct:role/old", FALSE)},
                   role : {"absent", "present"}, role_attached : BOOLEAN,
                   iam_policy : {"absent", "present"},
                   bucket : {"absent", "empty", "nonempty"}] :
              a.role_attached => (a.role = "present" /\ a.iam_policy = "present") }
       IN  acct \in NetworkAccts \cup CloudAccts
    /\ acct_before = acct
    /\ op = NoOp /\ again = [is |-> FALSE, ok |-> FALSE, ret |-> ""]

NextRec ==
    \/ CreateNetworkRule
    \/ CreateNetworkPolicy
    \/ AlterNetworkPolicy
    \/ UpdateNetworkRule
    \/ DeleteNetworkRule
    \/ DeleteNetworkPolicy
    \/ PatCreateNetworkRule
    \/ PatCreateNetworkPolicy
    \/ PatDeleteNetworkRule
    \/ PatDeleteNetworkPolicy
    \/ CreateExternalVolume
    \/ DropExternalVolume
    \/ DeleteIamRole
    \/ DeleteIamPolicy
    \/ DeleteS3Bucket
    \/ DeleteCommand

SpecRec == InitRec /\ [][NextRec]_vars

\* one command, run from its first line to its exit
InitCmd ==
    /\ CreateIdle /\ WaitIdle /\ RecIdle /\ LibIdle
    /\ c_args \in CommandLines
    /\ c_pc = "start"
    /\ c_out = <<>> /\ c_ext = <<>>
    /\ c_token = ""
    /\ c_env_file \in {[exists |-> FALSE, password |-> ""], [exists |-> TRUE, password |-> "tok_stale"]}
    /\ c_exit = -1

NextCmd ==
    \/ PatCreateStart
    \/ PatCreateSetup
    \/ PatRotateStart
    \/ PatToken
    \/ PatUpdateEnv
    \/ PatVerify
    \/ PatResult
    \/ ExtvolumeCreate
    \/ RuleCreate
    \/ RuleUpdate
    \/ PolicyCommand
    \/ CheckSetup

SpecCmd == InitCmd /\ [][NextCmd]_vars

\* one process: either one call of a masking function, or the preset
\* fetchers called any number of times
InitLib ==
    /\ CreateIdle /\ WaitIdle /\ RecIdle /\ CmdIdle
    /\ m_call \in MaskCalls \cup {NoMaskCall}
    /\ p_log = <<>> /\ p_cache = [github |-> FALSE, google |-> FALSE]

NextLib ==
    \/ MaskSensitiveString
    \/ MaskJsonSensitive
    \/ CollectIpv4Cidrs

SpecLib == InitLib /\ [][NextLib]_vars

----------------------------------------------------------------------------
\* Reading the call log

CallIdx == 1..Len(calls)

Issued(api) == \E i \in CallIdx : calls[i].api = api

Succeeded(api) == \E i \in CallIdx : calls[i].api = api /\ calls[i].ok

\* the workflow step an external call belongs to; 0 for the calls that are
\* not part of a step (account lookup before the try block, the two waits)
\* and 8 for the calls of rollback
StepOfApi(api) ==
    CASE api \in {"s3:HeadBucket", "s3:CreateBucket", "s3:PutBucketVersioning"} -> 1
      [] api \in {"iam:GetPolicy", "iam:CreatePolicy"} -> 2
      [] api \in {"iam:GetRole", "iam:CreateRole", "iam:AttachRolePolicy"} -> 3
      [] api = "snow:CreateExternalVolume" -> 4
      [] api = "snow:DescribeExternalVolume" -> 5
      [] api = "iam:UpdateAssumeRolePolicy" -> 6
      [] api = "snow:VerifyExternalVolume" -> 7
      [] api \in {"iam:DetachRolePolicy", "iam:DeleteRole", "iam:DeletePolicy",
                  "s3:DeleteBucket"} -> 8
      [] OTHER -> 0

StepNo(step) ==
    CASE step = "step1" -> 1 [] step = "step2" -> 2 [] step = "step3" -> 3
      [] step = "step4" -> 4 [] step = "step5" -> 5 [] step = "step6" -> 6
      [] step = "step7" -> 7 [] OTHER -> 0

\* the step in which `create` creates a resource
StepOfResource(r) ==
    CASE r = "bucket" -> 1 [] r = "policy" -> 2 [] r = "role" -> 3 [] r = "volume" -> 4

Gone(r) ==
    CASE r = "bucket" -> s3_bucket = "absent"
      [] r = "policy" -> iam_policy = "absent"
      [] r = "role"   -> iam_role = "absent"
      [] r = "volume" -> sf_volume = NoVolume

\* `create` has ended with an error after running rollback
RolledBack == pc = "exit" /\ status = "failed" /\ err # NoErr

----------------------------------------------------------------------------
\* C1: rollback deletes a bucket, policy or role only if this run created it:
\* a bucket, policy or role that existed before the run still exists in every
\* state of the run.
C1_PreexistingNeverDeleted ==
    /\ pre.bucket = "present" => s3_bucket = "present"
    /\ pre.policy = "present" => iam_policy = "present"
    /\ pre.role = "present" => iam_role = "present"

C3_OriginalErrorPropagates ==
    RolledBack =>
        /\ raised.step = err.step
        /\ raised.cause = err.cause
        /\ StepNo(raised.step) \in 1..7

C3_Witness ==
    /\ RolledBack
    /\ Len(rb_log) >= 2
    /\ raised.step = "step4" /\ raised.cause = "snow:CreateExternalVolume"

\* C4: rollback attempts its deletions in the order role (policy detached
\* first), policy, bucket.
C4_RollbackReverseOrder ==
    \A i \in CallIdx, j \in CallIdx :
        /\ (calls[i].api = "iam:DetachRolePolicy" /\ calls[j].api = "iam:DeleteRole") => i < j
        /\ (calls[i].api = "iam:DeleteRole" /\ calls[j].api = "iam:DeletePolicy") => i < j
        /\ (calls[i].api = "iam:DeletePolicy" /\ calls[j].api = "s3:DeleteBucket") => i < j
        /\ (calls[i].api = "iam:DeleteRole" /\ calls[j].api = "s3:DeleteBucket") => i < j

C4_Witness ==
    /\ Issued("iam:DetachRolePolicy") /\ Issued("iam:DeleteRole")
    /\ Issued("iam:DeletePolicy") /\ Issued("s3:DeleteBucket")

\* C5: when rollback has ended, the deletion of every resource flagged as
\* created in this run has been attempted, whichever deletions failed.
C5_RollbackBestEffort ==
    RolledBack =>
        /\ created_role => Issued("iam:DeleteRole")
        /\ created_policy => Issued("iam:DeletePolicy")
        /\ created_bucket => Issued("s3:DeleteBucket")

C5_Witness ==
    /\ RolledBack
    /\ rb_log = <<"role">>
    /\ created_policy /\ created_bucket
    /\ Succeeded("iam:DeletePolicy") /\ Succeeded("s3:DeleteBucket")

\* the last call of step k in the log succeeded
StepReturnedSuccess(k) ==
    \E i \in CallIdx :
        /\ StepOfApi(calls[i].api) = k
        /\ calls[i].ok
        /\ \A j \in CallIdx : (j > i) => StepOfApi(calls[j].api) # k

\* C6: the calls of the steps appear in step order; a call of step k is issued
\* only when every earlier step has returned success; once rollback has begun
\* no call of any step is issued.
C6_StrictlyLinear ==
    /\ \A i \in CallIdx, j \in CallIdx :
          (i < j /\ StepOfApi(calls[i].api) # 0 /\ StepOfApi(calls[j].api) # 0)
              => StepOfApi(calls[i].api) <= StepOfApi(calls[j].api)
    /\ \A j \in CallIdx :
          StepOfApi(calls[j].api) \in 2..7 =>
              \A k \in 1..(StepOfApi(calls[j].api) - 1) : StepReturnedSuccess(k)
    /\ err # NoErr => pc \in {"rollback_role", "rollback_policy", "rollback_bucket",
                              "reraise", "exit"}

C6_Witness ==
    /\ status = "success"
    /\ Succeeded("s3:CreateBucket") /\ Succeeded("iam:CreatePolicy")
    /\ Succeeded("iam:CreateRole") /\ Succeeded("snow:CreateExternalVolume")
    /\ Succeeded("snow:DescribeExternalVolume")
    /\ Succeeded("iam:UpdateAssumeRolePolicy")
    /\ Succeeded("snow:VerifyExternalVolume")

\* C7: the trust update is issued only after the create-volume and describe
\* calls of this run succeeded, in that order; the principal it writes is the
\* IAM user ARN the describe returned; a role created by this run carries the
\* initial, external-ID-conditioned trust document until that update.
C7_TrustNarrowedAfterDescribe ==
    /\ \A i \in CallIdx :
          calls[i].api = "iam:UpdateAssumeRolePolicy" =>
              \E j \in CallIdx, k \in CallIdx :
                  /\ j < k /\ k < i
                  /\ calls[j].api = "snow:CreateExternalVolume" /\ calls[j].ok
                  /\ calls[k].api = "snow:DescribeExternalVolume" /\ calls[k].ok
    /\ (Succeeded("iam:UpdateAssumeRolePolicy") /\ iam_role = "present") =>
          /\ role_trust.principal = sf_props.iam_user_arn
          /\ sf_props.iam_user_arn = sf_volume.arn
          /\ role_trust.principal \in SnowflakeArns
          /\ role_trust.external_id # "none"
    /\ ("role" \in made /\ iam_role = "present"
            /\ ~Succeeded("iam:UpdateAssumeRolePolicy")) =>
          role_trust = [principal |-> "root", external_id |-> ConfigExternalId]

C7_Witness ==
    /\ status = "success"
    /\ "role" \in made
    /\ role_trust = [principal |-> "arn_sf_b", external_id |-> ConfigExternalId]

\* the delays the claim expects: initial_delay, then each next one
\* min(previous * factor, max_delay)
RECURSIVE ExpectedDelay(_, _, _, _)
ExpectedDelay(i, initial_delay, max_delay, backoff_factor) ==
    IF i = 1 THEN initial_delay
    ELSE Min(ExpectedDelay(i - 1, initial_delay, max_delay, backoff_factor) * backoff_factor,
             max_delay)

NeverTrue(check_fn) == \A i \in DOMAIN check_fn : ~check_fn[i]

\* C8: with a check that never returns true the waiter returns false after
\* exactly max_attempts checks, having slept initial_delay,
\* min(initial_delay*factor, max_delay), ... between consecutive checks.
C8_BackoffTermination ==
    (w_ret # NoRet /\ NeverTrue(w_args.check_fn)) =>
        /\ w_ret.result = FALSE
        /\ w_ret.checks = w_args.max_attempts
        /\ Len(w_ret.sleeps) = (IF w_args.max_attempts = 0 THEN 0
                                ELSE w_args.max_attempts - 1)
        /\ \A i \in 1..Len(w_ret.sleeps) :
              w_ret.sleeps[i] = ExpectedDelay(i, w_args.initial_delay, w_args.max_delay,
                                              w_args.backoff_factor)

C8_Witness ==
    /\ w_ret # NoRet /\ NeverTrue(w_args.check_fn)
    /\ w_args.max_attempts = 4
    /\ w_args.initial_delay = 1 /\ w_args.backoff_factor = 2 /\ w_args.max_delay = 3
    /\ w_ret.sleeps = <<1, 2, 3>>

\* C9: when a wait returns false, `create` goes on to the next step and no
\* exception is raised: rollback is entered only with a step's error in flight.
C9_WaitTimeoutNotFatal ==
    /\ (role_wait # NoRet /\ ~role_wait.result) =>
          (pc = "step4" \/ Issued("snow:CreateExternalVolume"))
    /\ (trust_wait # NoRet /\ ~trust_wait.result) =>
          (pc = "step7" \/ verify_result # "none" \/ Issued("snow:VerifyExternalVolume"))
    /\ pc \in {"rollback_role", "rollback_policy", "rollback_bucket", "reraise"} =>
          StepNo(err.step) \in 1..7

C9_Witness ==
    /\ status = "success"
    /\ role_wait # NoRet /\ ~role_wait.result /\ role_wait.checks = RoleWaitAttempts
    /\ trust_wait # NoRet /\ ~trust_wait.result

\* C10: when the existence probe of the bucket, policy or role is answered
\* with access denied, the step raises, no create call is issued for that
\* resource, its created flag stays false and the run does not succeed.
C10_ProbeDeniedIsFatal ==
    /\ (pre.bucket = "foreign" /\ Issued("s3:HeadBucket")) =>
          /\ err.step = "step1" /\ err.cause = "s3:HeadBucket:403"
          /\ ~created_bucket /\ ~Issued("s3:CreateBucket") /\ status # "success"
    /\ (pre.policy = "denied" /\ Issued("iam:GetPolicy")) =>
          /\ err.step = "step2"
          /\ ~created_policy /\ ~Issued("iam:CreatePolicy") /\ status # "success"
    /\ (pre.role = "denied" /\ Issued("iam:GetRole")) =>
          /\ err.step = "step3"
          /\ ~created_role /\ ~Issued("iam:CreateRole") /\ status # "success"

C10_Witness ==
    /\ RolledBack
    /\ pre.role = "denied" /\ err.cause = "iam:GetRole:AccessDenied"
    /\ raised.kind = "ClickException"

----------------------------------------------------------------------------
\* Reading the last reconcile operation

\* the invocations of the last call that carry the given role
InvsAt(role) == {i \in DOMAIN op.stmts : op.stmts[i].role = role}

\* the last call met no fault outside the account's objects and, where the
\* function needs SA_ADMIN_ROLE, found it set
CleanCall ==
    /\ op.env.fault = "none"
    /\ (op.impl = "pat" => op.args.admin_role # "")

\* the last call was made for real
RealCall == op.name # "none" /\ ("dry_run" \in DOMAIN op.args => ~op.args.dry_run)

----------------------------------------------------------------------------
\* C12: create_network_rule called twice with the same arguments and
\* force=False returns the same db.schema.name both times and the second
\* call raises nothing, in snow-utils-networks and in snow-utils-pat alike.
C12_CreateRuleTwice ==
    (/\ op.name = "create_network_rule"
     /\ again.is /\ again.ok
     /\ ~op.args.force
     /\ CleanCall)
    => (op.ok /\ op.ret = again.ret)

\* C13: create with force=True on a rule, policy or external volume that
\* exists succeeds and leaves the stored object equal to the new spec.
C13_ForceOverwrites ==
    (/\ op.name \in {"create_network_rule", "create_network_policy",
                     "create_external_volume"}
     /\ op.args.force
     /\ RealCall /\ CleanCall
     /\ (op.name = "create_network_rule"
           => acct_before.rule.exists
              /\ validate_mode_type(op.args.mode, op.args.type))
     /\ (op.name = "create_network_policy"
           => acct_before.policies[op.args.policy_name].exists)
     /\ (op.name = "create_external_volume" => acct_before.volume.exists))
    => /\ op.ok
       /\ (op.name = "create_network_rule"
             => acct.rule = Rule(op.args.values, op.args.mode, op.args.type))
       /\ (op.name = "create_network_policy"
             => acct.policies[op.args.policy_name] = Policy(op.args.rule_refs))
       /\ (op.name = "create_external_volume"
             => acct.volume = ExtVolume(op.args.role_arn, op.args.allow_writes))

\* the object a delete operation is about was absent when it was called
AbsentBefore ==
    CASE op.name = "delete_network_rule" -> ~acct_before.rule.exists
      [] op.name = "delete_network_policy" ->
           ~acct_before.policies[op.args.policy_name].exists
      [] op.name = "drop_external_volume" -> ~acct_before.volume.exists
      [] op.name = "delete_iam_role" -> acct_before.role = "absent"
      [] op.name = "delete_iam_policy" -> acct_before.iam_policy = "absent"
      [] OTHER -> FALSE

DeleteOps == {"delete_network_rule", "delete_network_policy",
              "drop_external_volume", "delete_iam_role", "delete_iam_policy"}

\* C14: deleting a network rule, network policy, external volume, IAM role
\* or IAM policy that does not exist raises nothing and changes nothing, and
\* so does a delete that follows a delete (no fault outside the account,
\* SA_ADMIN_ROLE set where it is required).
C14_DeleteAbsentIsNoop ==
    (/\ op.name \in DeleteOps
     /\ CleanCall
     /\ (AbsentBefore \/ (again.is /\ again.ok)))
    => (op.ok /\ acct = acct_before)

C14_Witness ==
    /\ op.name = "delete_iam_role" /\ op.env.fault = "none"
    /\ acct_before.role = "absent"
    /\ again.is /\ again.ok
    /\ op.ok /\ Len(op.stmts) = 2

\* C15: `extvolume delete` run again with the same arguments after a run that
\* completed raises nothing and changes nothing, --delete-bucket included.
C15_DeleteCommandRerunnable ==
    (/\ op.name = "delete"
     /\ again.is /\ again.ok
     /\ op.env.fault = "none")
    => (op.ok /\ acct = acct_before)

\* C16: when create_network_rule (snow-utils-networks) issues the replace
\* statement, every policy that listed the rule was detached before it, and
\* is re-attached after it when the call completes.
C16_DetachBeforeReplace ==
    (/\ op.name = "create_network_rule" /\ op.impl = "networks"
     /\ op.env.fault = "none")
    => \A i \in InvsAt("replace") :
         \A p \in Referencing(acct_before, TheRuleFqn) :
           /\ \E d \in InvsAt("detach") : d < i /\ op.stmts[d].stmt.name = p
           /\ op.ok => \E r \in InvsAt("reattach") :
                         r > i /\ op.stmts[r].stmt.name = p

\* C21: validate_mode_type accepts exactly the documented (mode, type) pairs,
\* and create_network_rule called with any other pair raises before it runs
\* anything and leaves the account as it was.
C21_ModeTypeTable ==
    (op.name = "create_network_rule" /\ op.impl = "networks") =>
        LET m == op.args.mode
            t == op.args.type
            documented ==
                \/ t = "IPV4"
                \/ t = "AWSVPCEID"
                     /\ m \in {"INGRESS", "INTERNAL_STAGE", "POSTGRES_INGRESS"}
                \/ t = "HOST_PORT" /\ m \in {"EGRESS", "POSTGRES_EGRESS"}
        IN  /\ validate_mode_type(m, t) <=> documented
            /\ ~documented => (~op.ok /\ op.stmts = <<>> /\ acct = acct_before)
            /\ (documented /\ op.args.dry_run) => (op.ok /\ op.ret = TheRuleFqn)
            /\ (documented /\ ~op.args.dry_run) => op.stmts # <<>>

\* a call with an egress mode and a type of the ingress modes was refused
C21_Witness ==
    /\ op.name = "create_network_rule" /\ op.impl = "networks"
    /\ op.args.mode = "POSTGRES_EGRESS" /\ op.args.type = "AWSVPCEID"
    /\ ~op.ok /\ op.stmts = <<>>

\* C27: extvolume create ends in success only when step 7 reported a
\* successful verification or --skip-verify was given; a verification that
\* reports failure never leads to the success outcome.
C27_SuccessOnlyIfVerified ==
    status = "success" => (skip_verify \/ verify_result = "success")

\* the last call was create_network_rule of snow-utils-networks, made for
\* real on a rule that a policy listed
ReplacedAttachedRule ==
    /\ op.name = "create_network_rule" /\ op.impl = "networks"
    /\ ~op.args.dry_run
    /\ InvsAt("replace") # {}
    /\ Referencing(acct_before, TheRuleFqn) # {}

Shown == UNION {c_out[i].shows : i \in DOMAIN c_out}
Lines == {i \in DOMAIN c_out : c_out[i].kind = "line"}
Documents == {i \in DOMAIN c_out : c_out[i].kind = "json"}
Spawned == {i \in DOMAIN c_ext : c_ext[i].kind = "snow"}

C18_TokenNeverDropped ==
    (c_pc \in {"done", "failed"} /\ c_token # "") =>
        \/ c_env_file.password = c_token
        \/ \E i \in Documents : c_token \in c_out[i].shows

\* C19: the value of SA_PAT is on no spawned process's command line and in
\* nothing printed; a child gets it only as SNOWFLAKE_PASSWORD, and the
\* command lines are the same whatever the token's value is.
C19_TokenOnlyInEnvironment ==
    c_args.environ.SA_PAT # "" =>
        /\ \A i \in Spawned :
              /\ \A j \in DOMAIN c_ext[i].flags :
                    c_ext[i].flags[j] # c_args.environ.SA_PAT
              /\ c_args.environ.SA_PAT \notin c_ext[i].names
              /\ \A t \in Tokens :
                    c_ext[i].flags \in
                      {<<>>, get_flags([c_args.environ EXCEPT !.SA_PAT = t],
                                       c_args.debug)}
        /\ c_args.environ.SA_PAT \notin Shown

\* C20: with --output json a command prints no progress line, and when it
\* succeeds it has printed exactly one JSON document.
C20_JsonOnlyOneDocument ==
    c_args.output = "json" =>
        /\ Lines = {}
        /\ Cardinality(Documents) <= 1
        /\ c_pc = "done" => Cardinality(Documents) = 1

\* the ADD PAT and ROTATE PAT statements of the run
PatStatements == {i \in DOMAIN c_ext : c_ext[i].what \in {"ADD PAT", "ROTATE PAT"}}

\* C28: in `pat create`, an ADD PAT or ROTATE PAT statement is issued only
\* when the CIDR list is not empty and, earlier in the same run and in this
\* order, the network rule and the network policy were created, the policy
\* was assigned to the user and the authentication policy was set, each of
\* them without failing; when one of these steps fails no PAT statement is
\* issued
C28_PatAfterNetworkAndAuth ==
    c_args.cmd = "pat create" =>
        /\ \A i \in PatStatements :
              /\ c_args.allow_local \/ c_args.extra_cidrs
              /\ \E r, p, u, t \in 1..(i - 1) :
                    /\ r < p /\ p < u /\ u < t
                    /\ c_ext[r].what = "CREATE NETWORK RULE" /\ c_ext[r].ok
                    /\ c_ext[p].what = "CREATE NETWORK POLICY" /\ c_ext[p].ok
                    /\ c_ext[u].what = "ALTER USER SET NETWORK_POLICY" /\ c_ext[u].ok
                    /\ c_ext[t].what = "CREATE AUTHENTICATION POLICY" /\ c_ext[t].ok
        /\ (\E j \in DOMAIN c_ext :
              /\ ~c_ext[j].ok
              /\ c_ext[j].what \in {"CREATE NETWORK RULE", "CREATE NETWORK POLICY",
                                    "ALTER USER SET NETWORK_POLICY",
                                    "CREATE AUTHENTICATION POLICY"})
           => PatStatements = {}

\* a create run that rotated the token it found
C28_Witness ==
    /\ c_args.cmd = "pat create" /\ ~c_args.dry_run /\ c_pc = "done"
    /\ \E i \in PatStatements : c_ext[i].what = "ROTATE PAT" /\ c_ext[i].ok

\* ---- the library functions (SpecLib)

\* a masking call that has returned with masking enabled
Masked(fn) == m_call.done /\ m_call.fn = fn /\ m_call.mask_sensitive

\* C22: IP masking of a dotted quad a.b.c.d with or without a /n suffix
\* gives a.b.***.*** followed by the same suffix, for every n
C22_IpMaskKeepsSuffix ==
    (Masked("mask_sensitive_string") /\ m_call.mask_type = "ip"
       /\ ip_pattern(m_call.value)) =>
        LET halves == split(m_call.value, "/")
            octets == split(halves[1], ".")
        IN  m_call.ret = octets[1] \o <<".">> \o octets[2] \o <<".", "*", "*", "*", ".", "*",
                "*", "*">>
                           \o (IF Len(halves) = 2 THEN <<"/">> \o halves[2] ELSE <<>>)

\* C24: external-ID masking keeps the length; up to 6 characters all become
\* asterisks, a longer value keeps its first 3 and last 3 characters and has
\* asterisks in between; "short" gives "*****", "abc123xyz" gives "abc***xyz"
C24_ExternalIdMask ==
    (Masked("mask_sensitive_string") /\ m_call.mask_type = "external_id") =>
        LET v == m_call.value
            r == m_call.ret
            n == Len(v)
        IN  /\ Len(r) = n
            /\ n <= 6 => \A i \in 1..n : r[i] = "*"
            /\ n > 6 => \A i \in 1..n :
                          r[i] = IF i <= 3 \/ i > n - 3 THEN v[i] ELSE "*"
            /\ v = <<"s", "h", "o", "r", "t">> => r = <<"*", "*", "*", "*", "*">>
            /\ v = <<"a", "b", "c", "1", "2", "3", "x", "y", "z">>
                 => r = <<"a", "b", "c", "*", "*", "*", "x", "y", "z">>

\* a value of 8 characters was masked: two asterisks between the kept ends
C24_Witness ==
    /\ Masked("mask_sensitive_string") /\ m_call.mask_type = "external_id"
    /\ m_call.value = <<"a", "7", "a", "7", "a", "7", "a", "7">>
    /\ m_call.ret = <<"a", "7", "a", "*", "*", "7", "a", "7">>

\* the leaves of a tree and of the tree returned for it, paired: the key a
\* leaf is under, the leaf and the leaf returned in its place
RECURSIVE LeafPairs(_, _, _)
LeafPairs(key, given, returned) ==
    IF given.t \in {"dict", "list"}
    THEN UNION { LeafPairs(IF given.t = "dict" THEN given.items[i].k ELSE key,
                           given.items[i].v, returned.items[i].v) :
                   i \in DOMAIN given.items }
    ELSE {[key |-> key, given |-> given, returned |-> returned]}

\* a tree with its str leaves blanked
RECURSIVE Shape(_)
Shape(node) ==
    IF node.t = "str" THEN Node("str", <<>>, <<>>)
    ELSE [node EXCEPT !.items = [i \in DOMAIN node.items |->
                                   [k |-> node.items[i].k, v |-> Shape(node.items[i].v)]]]

\* C23: with masking enabled mask_json_sensitive returns a tree of the same
\* shape (keys, list lengths, leaves that are not str) in which every str
\* leaf is masked that is under a key containing aws, arn, account,
\* external, ip or address (of the keys drawn: account, description,
\* Role_ARN), or whose value is an ARN, a 12-digit account ID or an IPv4
\* address
C23_JsonMaskEveryLeaf ==
    Masked("mask_json_sensitive") =>
        /\ Shape(m_call.ret_data) = Shape(m_call.data)
        /\ \A l \in LeafPairs(<<>>, m_call.data, m_call.ret_data) :
              (/\ l.given.t = "str"
               /\ \/ l.key \in {<<"a", "c", "c", "o", "u", "n", "t">>, <<"d", "e", "s", "c",
                       "r", "i", "p", "t", "i", "o", "n">>, <<"R", "o", "l", "e", "_", "A",
                       "R", "N">>}
                  \/ l.given.s \in {<<"a", "r", "n", ":", "a", "w", "s", ":", "i", "a", "m",
                          ":", ":", "1", "2", "3", "4", "5", "6", "7", "8", "9", "0", "1", "2",
                          ":", "r", "o", "l", "e", "/", "r">>,
                                    <<"1", "2", "3", "4", "5", "6", "7", "8", "9", "0", "1",
                                            "2">>, <<"1", "0", ".", "1", ".", "1", "0", ".",
                                            "1", "/", "2", "4">>})
              => l.returned # l.given

\* C26: once a preset has been fetched successfully, no later call for the
\* same preset in the process makes an HTTP request
C26_PresetFetchedOnce ==
    \A i \in DOMAIN p_log, j \in DOMAIN p_log :
        (i < j /\ p_log[i].preset = p_log[j].preset /\ p_log[i].ok) => ~p_log[j].http

\* ---- check_setup.py (SpecCmd)

\* check_setup.py has exited in text mode
CheckExited ==
    c_args.cmd = "check_setup" /\ c_args.output = "text" /\ c_pc \in {"done", "failed"}

\* the database and the role were both found
InfraReady == c_args.check.db = "rows" /\ c_args.check.role = "rows"

\* the setup script was run and exited with status 0
SetupRan ==
    \E i \in DOMAIN c_ext : c_ext[i].what = "sql -f snow-utils-setup.sql" /\ c_ext[i].ok

====
